---- MODULE Spec2Model ----
(***************************************************************************)
(* BETOFF: the bet-collection server (express + socket.io, file-backed)    *)
(* and the viewer's realtime synchronizer (useRealtimeBets).               *)
(*                                                                         *)
(* One request handler is one atomic action: node runs a handler to        *)
(* completion, and every handler of the server is synchronous.             *)
(***************************************************************************)
EXTENDS Integers, Sequences, FiniteSets, TLC

\* ------------------------------------------------------------------ bounds
\* the clock (Date.now(), file mtime) runs over 1..MaxTime
MaxTime == 2
\* the longest collection the requests build
MaxLen == 2
\* clock ticks per calendar day (formatDMY changes every TicksPerDay ticks)
TicksPerDay == 1
\* the most messages in flight to one viewer on its socket
MaxWire == 2
\* the most marker fetches (fetchMeta) one viewer has outstanding at a time
MaxMeta == 2
\* the longest collection of OrderSpec
MaxOrder == 3

\* --------------------------------------------------------------- constants
ADMIN_PASSWORD == "betoff07"
\* 80.78, in hundredths
DEFAULT_RUB_RATE == 8078

\* ------------------------------------------------------- JavaScript values
\* a key that the JSON object does not carry (reads as undefined)
Absent == "<absent>"
\* JSON null
Null == "<null>"
\* !v for the values a field takes here: undefined, null and ''
Falsy(v) == v \in {Absent, Null, ""}
\* String(v)
StringOf(v) == IF v = Absent THEN "undefined" ELSE IF v = Null THEN "null" ELSE v

Min(a, b) == IF a <= b THEN a ELSE b

\* the calendar days the clock runs through, as DD/MM/YYYY
Days == <<"01/01/2025", "02/01/2025", "03/01/2025", "04/01/2025">>

formatDMY(t) == Days[((t - 1) \div TicksPerDay) + 1]

\* a date an admin typed into a record
UserDate == "15/12/2024"

Fields == {"id", "added_date", "status"}

Rec(id, ad, st) == [id |-> id, added_date |-> ad, status |-> st]

\* ------------------------------------------------------------------ inputs
BadPasswords == {"wrong", ""}

RECURSIVE SeqsUpTo(_, _)
SeqsUpTo(S, n) ==
  IF n = 0 THEN {<< >>}
  ELSE LET shorter == SeqsUpTo(S, n - 1)
       IN  shorter \cup {Append(s, x) : s \in {q \in shorter : Len(q) = n - 1}, x \in S}

\* a body of PUT /api/bets that is no array
NonArray == [isArray |-> FALSE, items |-> << >>]
ArrayBodies(items) == [isArray : {TRUE}, items : SeqsUpTo(items, MaxLen)]

\* Spec: one record, whose status a PATCH changes
RecA == Rec("a", UserDate, "WON")
SmallPosts == {RecA}
SmallPuts == ArrayBodies({RecA}) \cup {NonArray}
SmallPatches == {Rec(Absent, Absent, "LOST")}
SmallUrlIds == {"a", "zz"}

\* DataSpec: records with and without id and added_date
PostBodies == [id : {Absent, "a"}, added_date : {Absent, "", UserDate}, status : {"WON"}]
PutItems == [id : {Absent, "a"}, added_date : {Absent, UserDate}, status : {"WON"}]
PutBodies == ArrayBodies(PutItems) \cup {NonArray}
\* bodies of PATCH /api/bets/:id (Absent: the payload does not name the field)
Patches == [id : {Absent}, added_date : {Absent, "", Null, UserDate}, status : {Absent}]
UrlIds == {"a", "1", "undefined", "zz"}

\* Number(body.rubPerUsdt) of PUT /api/rate, in hundredths
RateInputs == {[kind |-> "num", v |-> 9000], [kind |-> "num", v |-> 0],
               [kind |-> "num", v |-> 0 - 100], [kind |-> "nan", v |-> 0],
               [kind |-> "inf", v |-> 0]}

\* what the file system does to writeBets(list, true)
WriteOutcomes == {"ok", "failFile", "failFileTruncated", "failBackup"}

\* sockets of clients whose page is not modelled (they only subscribe)
Others == {"x1", "x2"}
\* viewers: a page running useRealtimeBets
Viewers == {"v1"}

VARIABLES
  now,          \* the wall clock, Date.now()
  cache,        \* server: let cache
  betsFile,     \* server: BETS_FILE, [state, data]
  betsMtime,    \* server: mtime of BETS_FILE
  lastBackup,   \* server: the newest file of BACKUP_DIR, [stamp, text]
  rateCache,    \* server: rateCache.rubPerUsdt
  rateFile,     \* server: RATE_FILE
  sockets,      \* server: the sockets connected to io
  emitted,      \* the io.emit calls of the step just taken
  lastReq,      \* the mutating request the step just taken handled, if any
  lastRes,      \* the status it was answered with
  mounted,      \* viewer: the effect of useRealtimeBets has run
  bets,         \* viewer: useState bets
  lastEventAt,  \* viewer: useState lastEventAt
  stored,       \* viewer: localStorage betoff_last_update (0: none)
  connected,    \* viewer: useState connected
  wire,         \* viewer: notifications in flight on the socket
  betsFetch,    \* viewer: the fetchBets() of the mount, [state, data]
  metaPending,  \* viewer: fetchMeta() requests not yet served
  metaReplies,  \* viewer: fetchMeta() results in flight, value -> how many
  lastApplied,  \* viewer: the payload the bets:update handler ran on last, if nothing else reached the viewer since
  missed,       \* viewer: a bets:update was emitted without reaching the mounted page
  period,       \* MobileHome: useState period
  rubRate,      \* MobileHome: useState rubRate, in hundredths
  rateIn,       \* MobileHome: the rate reply or rate:update the step just taken handled, if any
  filtered,     \* MobileHome: useMemo filtered, as of the last render
  stats,        \* MobileHome: useMemo stats, as of the last render
  streak,       \* MobileHome: useMemo streak, as of the last render
  importDoc,    \* Admin: the JSON document of the file chosen last
  importItems,  \* Admin: useState importItems
  importInfo,   \* Admin: useState importInfo, by the message it stands for
  importRun     \* Admin: the importAddMerge() in flight, [pc, items, current, ok]

serverVars == <<cache, betsFile, betsMtime, lastBackup, rateCache, rateFile>>
obsVars == <<emitted, lastReq, lastRes>>
viewerVars == <<mounted, bets, lastEventAt, stored, connected, wire, betsFetch,
                metaPending, metaReplies, lastApplied, missed>>
\* the pages' own state: MobileHome of each viewer, and the Admin import form
clientVars == <<period, rubRate, rateIn, filtered, stats, streak, importDoc, importItems>>
formVars == <<importInfo, importRun>>
pageVars == <<clientVars, formVars>>
vars == <<now, serverVars, sockets, obsVars, viewerVars, pageVars>>

\* ------------------------------------------------------------ observations
\* the payloads of the events: { items, updatedAt } of bets:update (kind
\* "object"; "array" is the bare list older servers sent, "other" anything
\* else) and { rubPerUsdt } of rate:update
Payload(kind, items, t) == [kind |-> kind, items |-> items, updatedAt |-> t, rubPerUsdt |-> 0]
RatePayload(r) == [kind |-> "rate", items |-> << >>, updatedAt |-> 0, rubPerUsdt |-> r]
NoPayload == Payload("none", << >>, 0)
\* the io.emit calls of one step, in order
NoEmitted == << >>
\* the one io.emit(event, payload) that reaches the sockets in to
Emission(event, payload, to) == <<[event |-> event, payload |-> payload, to |-> to]>>
NoReq == [op |-> "none", pw |-> ""]

\* a step that handles no mutating request
Quiet == emitted' = NoEmitted /\ lastReq' = NoReq /\ lastRes' = 0

BetsOps == {"PUT", "POST", "PATCH", "DELETE"}

\* ------------------------------------------------------------ server: files
NoFile == [state |-> "absent", data |-> << >>]

\* readBets(): the array in the file, [] when it is missing or does not parse
readBets(file) == IF file.state = "ok" THEN file.data ELSE << >>

\* getUpdatedAt(): mtime of the file, 0 when stat fails
getUpdatedAt == IF betsFile.state = "absent" THEN 0 ELSE betsMtime

\* Number.isFinite(v) && v > 0
ValidRate(r) == r.kind = "num" /\ r.v > 0

\* writeBets(list, true): BETS_FILE first, then the backup; a failing write throws
writeBets(list, outcome) ==
  /\ betsFile' = CASE outcome = "failFile" -> betsFile
                   [] outcome = "failFileTruncated" -> [state |-> "truncated", data |-> << >>]
                   [] OTHER -> [state |-> "ok", data |-> list]
  /\ betsMtime' = IF outcome = "failFile" THEN betsMtime ELSE now
  /\ lastBackup' = IF outcome = "ok" THEN [stamp |-> now, text |-> list] ELSE lastBackup

\* io.emit(event, payload): one message to every connected socket
ioEmit(event, payload) ==
  /\ emitted' = Emission(event, payload, sockets)
  /\ wire' = [v \in Viewers |->
                IF v \in sockets /\ event = "bets:update"
                THEN Append(wire[v], payload) ELSE wire[v]]
  /\ missed' = [v \in Viewers |->
                  missed[v] \/ (event = "bets:update" /\ mounted[v] /\ v \notin sockets)]

NoEmit == emitted' = NoEmitted /\ UNCHANGED <<wire, missed>>

Respond(op, pw, status) ==
  /\ lastReq' = [op |-> op, pw |-> pw]
  /\ lastRes' = status

\* a check that only asks for some credential
AuthorizedPresent(pw) == pw # ""

\* String(pw) === String(ADMIN_PASSWORD)
Authorized(pw) == pw = ADMIN_PASSWORD

\* the viewer state a server handler leaves alone
viewerRest == <<mounted, bets, lastEventAt, stored, connected, betsFetch,
                metaPending, metaReplies, lastApplied>>

\* the moments Date.now() of the io.emit can show: the writes take time
EmitTimes == now .. Min(now + 1, MaxTime)

\* the tail with io.emit of the collection as it was before the request
PersistAndBroadcastStale(op, pw, outcome, t2) ==
  /\ writeBets(cache', outcome)
  /\ IF outcome = "ok"
     THEN /\ ioEmit("bets:update", Payload("object", cache, t2))
          /\ now' = t2
          /\ Respond(op, pw, 200)
     ELSE /\ NoEmit
          /\ now' = now
          /\ Respond(op, pw, 500)
  /\ UNCHANGED <<clientVars, rateCache, rateFile, sockets, viewerRest>>

\* the tail with io.emit ahead of writeBets
PersistAndBroadcastEager(op, pw, outcome, t2) ==
  /\ writeBets(cache', outcome)
  /\ ioEmit("bets:update", Payload("object", cache', t2))
  /\ now' = t2
  /\ Respond(op, pw, IF outcome = "ok" THEN 200 ELSE 500)
  /\ UNCHANGED <<clientVars, rateCache, rateFile, sockets, viewerRest>>

\* the tail shared by PUT, POST, PATCH, DELETE: cache is already assigned;
\* writeBets, then io.emit, then the answer; a throw is answered 500
PersistAndBroadcast(op, pw, outcome, t2) ==
  /\ writeBets(cache', outcome)
  /\ IF outcome = "ok"
     THEN /\ ioEmit("bets:update", Payload("object", cache', t2))
          /\ now' = t2
          /\ Respond(op, pw, 200)
     ELSE /\ NoEmit
          /\ now' = now
          /\ Respond(op, pw, 500)
  /\ UNCHANGED <<clientVars, rateCache, rateFile, sockets, viewerRest>>

\* an answer that returns before anything is touched
Reject(op, pw, status) ==
  /\ Respond(op, pw, status)
  /\ emitted' = NoEmitted
  /\ UNCHANGED <<clientVars, now, serverVars, sockets, viewerVars>>

\* ensureAddedDateOnArray(arr)
ensureAddedDateOnArray(arr) ==
  [i \in 1..Len(arr) |->
     IF Falsy(arr[i].added_date) THEN [arr[i] EXCEPT !.added_date = formatDMY(now)]
     ELSE arr[i]]

\* app.put('/api/bets')
PutBets(pw, body, outcome, t2) ==
  IF ~Authorized(pw) THEN Reject("PUT", pw, 401)
  ELSE IF ~body.isArray THEN Reject("PUT", pw, 400)
  ELSE /\ cache' = ensureAddedDateOnArray(body.items)
       /\ PersistAndBroadcast("PUT", pw, outcome, t2)

\* POST that puts the new record last
PostBetAppend(pw, obj, outcome, t2) ==
  IF ~Authorized(pw) THEN Reject("POST", pw, 401)
  ELSE LET withId == IF Falsy(obj.id) THEN [obj EXCEPT !.id = ToString(now)] ELSE obj
           rec == IF Falsy(withId.added_date)
                  THEN [withId EXCEPT !.added_date = formatDMY(now)] ELSE withId
       IN  /\ cache' = cache \o <<rec>>
           /\ PersistAndBroadcast("POST", pw, outcome, t2)

\* app.post('/api/bets')
PostBet(pw, obj, outcome, t2) ==
  IF ~Authorized(pw) THEN Reject("POST", pw, 401)
  ELSE LET withId == IF Falsy(obj.id) THEN [obj EXCEPT !.id = ToString(now)] ELSE obj
           rec == IF Falsy(withId.added_date)
                  THEN [withId EXCEPT !.added_date = formatDMY(now)] ELSE withId
       IN  /\ cache' = <<rec>> \o cache
           /\ PersistAndBroadcast("POST", pw, outcome, t2)

\* cache.findIndex(x => String(x.id) === id), 0 for -1
findIndex(list, id) ==
  IF \E i \in 1..Len(list) : StringOf(list[i].id) = id
  THEN CHOOSE i \in 1..Len(list) :
         /\ StringOf(list[i].id) = id
         /\ \A j \in 1..(i - 1) : StringOf(list[j].id) # id
  ELSE 0

\* the patch in the place of the record
MergeReplace(rec, patch) == patch

\* { ...rec, ...patch }
Merge(rec, patch) == [f \in Fields |-> IF patch[f] = Absent THEN rec[f] ELSE patch[f]]

\* PATCH without the added_date guarantee
PatchBetNoEnsure(pw, id, patch, outcome, t2) ==
  IF ~Authorized(pw) THEN Reject("PATCH", pw, 401)
  ELSE LET idx == findIndex(cache, id) IN
       IF idx = 0 THEN Reject("PATCH", pw, 404)
       ELSE /\ cache' = [cache EXCEPT ![idx] = Merge(cache[idx], patch)]
            /\ PersistAndBroadcast("PATCH", pw, outcome, t2)

\* app.patch('/api/bets/:id')
PatchBet(pw, id, patch, outcome, t2) ==
  IF ~Authorized(pw) THEN Reject("PATCH", pw, 401)
  ELSE LET idx == findIndex(cache, id) IN
       IF idx = 0 THEN Reject("PATCH", pw, 404)
       ELSE LET merged == Merge(cache[idx], patch)
                rec == IF Falsy(merged.added_date)
                       THEN [merged EXCEPT !.added_date = formatDMY(now)] ELSE merged
            IN  /\ cache' = [cache EXCEPT ![idx] = rec]
                /\ PersistAndBroadcast("PATCH", pw, outcome, t2)

\* cache.filter(x => String(x.id) !== id)
RemoveId(list, id) == SelectSeq(list, LAMBDA x : StringOf(x.id) # id)

\* DELETE that writes the filtered list before it looks at its length
DeleteBetWriteFirst(pw, id, outcome, t2) ==
  IF ~Authorized(pw) THEN Reject("DELETE", pw, 401)
  ELSE LET kept == RemoveId(cache, id) IN
       IF Len(kept) = Len(cache)
       THEN /\ cache' = kept
            /\ writeBets(kept, outcome)
            /\ Respond("DELETE", pw, 404)
            /\ NoEmit
            /\ UNCHANGED <<clientVars, now, rateCache, rateFile, sockets, viewerRest>>
       ELSE /\ cache' = kept
            /\ PersistAndBroadcast("DELETE", pw, outcome, t2)

\* app.delete('/api/bets/:id')
DeleteBet(pw, id, outcome, t2) ==
  IF ~Authorized(pw) THEN Reject("DELETE", pw, 401)
  ELSE LET kept == RemoveId(cache, id) IN
       IF Len(kept) = Len(cache) THEN Reject("DELETE", pw, 404)
       ELSE /\ cache' = kept
            /\ PersistAndBroadcast("DELETE", pw, outcome, t2)

\* writeRate(val): the object written to RATE_FILE
writeRate(val) == [rubPerUsdt |-> IF ValidRate(val) THEN val.v ELSE DEFAULT_RUB_RATE,
                   updatedAt |-> now]

\* app.put('/api/rate'); fileOk: the write of RATE_FILE does not throw
PutRate(pw, val, fileOk) ==
  IF ~Authorized(pw) THEN Reject("PUT rate", pw, 401)
  ELSE IF ~ValidRate(val) THEN Reject("PUT rate", pw, 400)
  ELSE IF ~fileOk THEN Reject("PUT rate", pw, 500)
  ELSE /\ rateFile' = writeRate(val)
       /\ rateCache' = rateFile'.rubPerUsdt
       /\ ioEmit("rate:update", RatePayload(rateCache'))
       /\ Respond("PUT rate", pw, 200)
       /\ UNCHANGED <<clientVars, now, cache, betsFile, betsMtime, lastBackup, sockets, viewerRest>>

\* the socket of another client connects to io, or drops
SocketConnect(s) ==
  /\ s \in Others \ sockets
  /\ sockets' = sockets \cup {s}
  /\ Quiet
  /\ UNCHANGED <<pageVars, now, serverVars, viewerVars>>

SocketDisconnect(s) ==
  /\ s \in Others \cap sockets
  /\ sockets' = sockets \ {s}
  /\ Quiet
  /\ UNCHANGED <<pageVars, now, serverVars, viewerVars>>

\* the clock advances
Tick ==
  /\ now < MaxTime
  /\ now' = now + 1
  /\ Quiet
  /\ UNCHANGED <<pageVars, serverVars, sockets, viewerVars>>

\* ------------------------------------------------------------------ viewer
\* useRealtimeBets, first render and effect: lastEventAt from localStorage,
\* fetchBets() and fetchMeta() are sent, the socket starts to connect
Mount(v) ==
  /\ ~mounted[v]
  /\ mounted' = [mounted EXCEPT ![v] = TRUE]
  /\ lastEventAt' = [lastEventAt EXCEPT ![v] = stored[v]]
  /\ betsFetch' = [betsFetch EXCEPT ![v] = [state |-> "sent", data |-> << >>]]
  /\ metaPending' = [metaPending EXCEPT ![v] = 1]
  /\ Quiet
  /\ UNCHANGED <<pageVars, now, serverVars, sockets, bets, stored, connected, wire,
                 metaReplies, lastApplied, missed>>

\* socket.on('connect')
Connect(v) ==
  /\ mounted[v] /\ v \notin sockets
  /\ sockets' = sockets \cup {v}
  /\ connected' = [connected EXCEPT ![v] = TRUE]
  /\ Quiet
  /\ UNCHANGED <<pageVars, now, serverVars, mounted, bets, lastEventAt, stored, wire, betsFetch,
                 metaPending, metaReplies, lastApplied, missed>>

\* a disconnect handler that empties the cache as well
DisconnectClears(v) ==
  /\ v \in sockets
  /\ sockets' = sockets \ {v}
  /\ connected' = [connected EXCEPT ![v] = FALSE]
  /\ bets' = [bets EXCEPT ![v] = << >>]
  /\ wire' = [wire EXCEPT ![v] = << >>]
  /\ missed' = [missed EXCEPT ![v] = missed[v] \/ wire[v] # << >>]
  /\ Quiet
  /\ UNCHANGED <<pageVars, now, serverVars, mounted, lastEventAt, stored, betsFetch,
                 metaPending, metaReplies, lastApplied>>

\* socket.on('disconnect'): the transport dropped, what was in flight is lost
Disconnect(v) ==
  /\ v \in sockets
  /\ sockets' = sockets \ {v}
  /\ connected' = [connected EXCEPT ![v] = FALSE]
  /\ wire' = [wire EXCEPT ![v] = << >>]
  /\ missed' = [missed EXCEPT ![v] = missed[v] \/ wire[v] # << >>]
  /\ Quiet
  /\ UNCHANGED <<pageVars, now, serverVars, mounted, bets, lastEventAt, stored, betsFetch,
                 metaPending, metaReplies, lastApplied>>

\* app.get('/api/bets') answers the viewer's fetchBets()
ServeBets(v) ==
  /\ betsFetch[v].state = "sent"
  /\ betsFetch' = [betsFetch EXCEPT ![v] = [state |-> "replied", data |-> cache]]
  /\ Quiet
  /\ UNCHANGED <<pageVars, now, serverVars, sockets, mounted, bets, lastEventAt, stored, connected,
                 wire, metaPending, metaReplies, lastApplied, missed>>

\* fetchBets().then(d => { if(mounted) setBets(d) })
DeliverBets(v) ==
  /\ betsFetch[v].state = "replied"
  /\ betsFetch' = [betsFetch EXCEPT ![v] = [state |-> "done", data |-> << >>]]
  /\ bets' = [bets EXCEPT ![v] = IF mounted[v] THEN betsFetch[v].data ELSE bets[v]]
  /\ lastApplied' = [lastApplied EXCEPT ![v] = NoPayload]
  /\ Quiet
  /\ UNCHANGED <<pageVars, now, serverVars, sockets, mounted, lastEventAt, stored, connected,
                 wire, metaPending, metaReplies, missed>>

\* app.get('/api/meta') answers one fetchMeta() of the viewer
ServeMeta(v) ==
  /\ metaPending[v] > 0
  /\ metaPending' = [metaPending EXCEPT ![v] = @ - 1]
  /\ metaReplies' = [metaReplies EXCEPT ![v][getUpdatedAt] = @ + 1]
  /\ Quiet
  /\ UNCHANGED <<pageVars, now, serverVars, sockets, mounted, bets, lastEventAt, stored, connected,
                 wire, betsFetch, lastApplied, missed>>

\* fetchMeta().then(ts => { if(ts) setLastEventAt(ts) })
DeliverMeta(v, ts) ==
  /\ metaReplies[v][ts] > 0
  /\ metaReplies' = [metaReplies EXCEPT ![v][ts] = @ - 1]
  /\ lastEventAt' = [lastEventAt EXCEPT ![v] = IF ts # 0 THEN ts ELSE @]
  /\ lastApplied' = [lastApplied EXCEPT ![v] = NoPayload]
  /\ Quiet
  /\ UNCHANGED <<pageVars, now, serverVars, sockets, mounted, bets, stored, connected,
                 wire, betsFetch, metaPending, missed>>

\* fetchBets() fails: fetch() or r.json() rejects (no network, a body that is
\* no JSON), so the then-callback of the effect never runs
FailBets(v) ==
  /\ betsFetch[v].state = "sent"
  /\ betsFetch' = [betsFetch EXCEPT ![v] = [state |-> "failed", data |-> << >>]]
  /\ Quiet
  /\ UNCHANGED <<pageVars, now, serverVars, sockets, mounted, bets, lastEventAt, stored, connected,
                 wire, metaPending, metaReplies, lastApplied, missed>>

\* fetchMeta() fails: fetch() throws or r.ok is false, and fetchMeta returns 0
FailMeta(v) ==
  /\ metaPending[v] > 0
  /\ metaPending' = [metaPending EXCEPT ![v] = @ - 1]
  /\ metaReplies' = [metaReplies EXCEPT ![v][0] = @ + 1]
  /\ Quiet
  /\ UNCHANGED <<pageVars, now, serverVars, sockets, mounted, bets, lastEventAt, stored, connected,
                 wire, betsFetch, lastApplied, missed>>

\* the fetchMeta() calls of the viewer that have not come back yet
RECURSIVE RepliesUpTo(_, _)
RepliesUpTo(v, t) == IF t < 0 THEN 0 ELSE metaReplies[v][t] + RepliesUpTo(v, t - 1)
MetaOutstanding(v) == metaPending[v] + RepliesUpTo(v, MaxTime)

\* the payloads the handler's second branch takes (payload && typeof payload
\* === 'object', no array): "object" carries items, "empty" is an object
\* without items such as {}, whose payload.items || [] is []; updatedAt 0
\* stands for every payload.updatedAt whose Number() is falsy (none, 0, NaN)
ObjectKinds == {"object", "empty"}

\* the handler with the carried timestamp ignored: every marker is Date.now()
onBetsUpdateNow(p, t, oldBets) ==
  IF p.kind = "array"
  THEN [bets |-> p.items, ts |-> t, fetch |-> TRUE]
  ELSE IF p.kind \in ObjectKinds
  THEN [bets |-> p.items, ts |-> t, fetch |-> FALSE]
  ELSE [bets |-> oldBets, ts |-> t, fetch |-> FALSE]

\* what socket.on('bets:update') makes of payload p at time t:
\* the new bets, marker and stored marker, and whether fetchMeta() is sent
onBetsUpdate(p, t, oldBets) ==
  IF p.kind = "array"
  THEN [bets |-> p.items, ts |-> t, fetch |-> TRUE]
  ELSE IF p.kind \in ObjectKinds
  THEN [bets |-> p.items, ts |-> IF p.updatedAt # 0 THEN p.updatedAt ELSE t, fetch |-> FALSE]
  ELSE [bets |-> oldBets, ts |-> t, fetch |-> FALSE]

\* socket.on('bets:update'): the next notification on the socket is handled
OnBetsUpdate(v) ==
  /\ wire[v] # << >>
  /\ LET p == Head(wire[v])
         r == onBetsUpdate(p, now, bets[v])
     IN  /\ r.fetch => MetaOutstanding(v) < MaxMeta
         /\ wire' = [wire EXCEPT ![v] = Tail(@)]
         /\ bets' = [bets EXCEPT ![v] = r.bets]
         /\ lastEventAt' = [lastEventAt EXCEPT ![v] = r.ts]
         /\ stored' = [stored EXCEPT ![v] = r.ts]
         /\ metaPending' = [metaPending EXCEPT ![v] = IF r.fetch THEN @ + 1 ELSE @]
         /\ lastApplied' = [lastApplied EXCEPT ![v] = p]
  /\ Quiet
  /\ UNCHANGED <<pageVars, now, serverVars, sockets, mounted, connected, betsFetch, metaReplies, missed>>

\* the push transport hands the viewer's socket a notification that no
\* handler of this server sent (an older server's bare list, any other value)
Transport(v, p) ==
  /\ v \in sockets
  /\ Len(wire[v]) < MaxWire
  /\ wire' = [wire EXCEPT ![v] = Append(@, p)]
  /\ Quiet
  /\ UNCHANGED <<pageVars, now, serverVars, sockets, mounted, bets, lastEventAt, stored, connected,
                 betsFetch, metaPending, metaReplies, lastApplied, missed>>

\* ====================================================== the pages' functions
\* ------------------------------------------------------------------ numbers
\* the value of a numeric field of a record, amounts and odds in hundredths:
\* a number, NaN, Infinity, or what JSON can put in its place
Num(n) == [kind |-> "num", v |-> n]
NaN == [kind |-> "nan", v |-> 0]
\* the key is absent: the field reads as undefined
Undefined == [kind |-> "undefined", v |-> 0]
JsonNull == [kind |-> "null", v |-> 0]
\* a string that is no number, such as "abc"
JsonText == [kind |-> "text", v |-> 0]

\* Number(x)
NumberOf(x) ==
  IF x.kind \in {"num", "inf"} THEN x
  ELSE IF x.kind = "null" THEN Num(0)
  ELSE NaN

\* Number(x) || 0, for the finite values a field takes here
NumberOrZero(x) == IF NumberOf(x).kind = "num" THEN NumberOf(x).v ELSE 0

\* Number.isFinite(val) && val > 0
IsFinitePositive(val) == val.kind = "num" /\ val.v > 0

Abs(n) == IF n < 0 THEN 0 - n ELSE n

\* Math.round(n / d) for d > 0: the nearest integer, a half goes up
MathRound(n, d) == (2 * n + d) \div (2 * d)

\* the digits of (n / d).toFixed(k) for d > 0, as an integer: n / d scaled by
\* scale = 10^k and rounded to the nearest integer, a half away from zero
RECURSIVE ScaledFloor(_, _, _, _)
ScaledFloor(q, r, d, ks) ==
  IF ks = << >> THEN q
  ELSE ScaledFloor(q * Head(ks) + ((r * Head(ks)) \div d), (r * Head(ks)) % d, d, Tail(ks))

toFixed(n, d, ks) ==
  LET m == Abs(n)
      twice == ScaledFloor(m \div d, m % d, d, Append(ks, 2))
      digits == (twice + 1) \div 2
  IN  IF n < 0 THEN 0 - digits ELSE digits

\* const round2 = (n) => Math.round((Number(n)||0) * 100) / 100, of the
\* product of two values in hundredths: the result in hundredths
round2Product(a, b) == MathRound(a * b, 100)

\* an amount in USDT as the exact fraction n / d of a hundredth
Q(n, d) == [n |-> n, d |-> d]
QAdd(a, b) ==
  IF a.d = b.d THEN Q(a.n + b.n, a.d) ELSE Q(a.n * b.d + b.n * a.d, a.d * b.d)

\* ------------------------------------------------------------------ records
\* const STATUS (the three Russian words, by their keys)
STATUS == [WON |-> "WON", LOST |-> "LOST", PENDING |-> "PENDING"]

\* a bet as the pages read it; added_date is the text as a sequence of
\* characters, the empty sequence for a missing or empty one
Bet(id, ad, st, stake, scur, coef, win, wcur) ==
  [id |-> id, added_date |-> ad, status |-> st, stake_value |-> stake,
   stake_currency |-> scur, coef |-> coef, win_value |-> win, win_currency |-> wcur]

\* const betUnit = (b) => (b.stake_currency || b.win_currency || 'USDT')
betUnit(b) ==
  IF ~Falsy(b.stake_currency) THEN b.stake_currency
  ELSE IF ~Falsy(b.win_currency) THEN b.win_currency
  ELSE "USDT"

\* normalizedWinValue(b) of src/client/src/App.jsx: a won bet yields win
normalizedWinValueApp(b) ==
  LET win == NumberOrZero(b.win_value)
      stake == NumberOrZero(b.stake_value)
  IN  IF b.status = STATUS.LOST
      THEN IF win < 0 THEN win ELSE IF stake # 0 THEN 0 - stake ELSE 0
      ELSE IF b.status = STATUS.PENDING THEN 0
      ELSE win

\* normalizedWinValue with the pending branch left out
normalizedWinValueNoPending(b) ==
  LET win == NumberOrZero(b.win_value)
      stake == NumberOrZero(b.stake_value)
  IN  IF b.status = STATUS.LOST
      THEN IF win < 0 THEN win ELSE IF stake # 0 THEN 0 - stake ELSE 0
      ELSE win - stake

\* normalizedWinValue(b)
normalizedWinValue(b) ==
  LET win == NumberOrZero(b.win_value)
      stake == NumberOrZero(b.stake_value)
  IN  IF b.status = STATUS.LOST
      THEN IF win < 0 THEN win ELSE IF stake # 0 THEN 0 - stake ELSE 0
      ELSE IF b.status = STATUS.PENDING THEN 0
      ELSE win - stake

\* Number(rubRate) || DEFAULT_RUB_RATE
rateOr(rate) ==
  IF NumberOf(rate).kind = "nan" \/ NumberOf(rate) = Num(0)
  THEN Num(DEFAULT_RUB_RATE) ELSE NumberOf(rate)

\* toUSDT(amount, b, rubRate): amount / (Number(rubRate) || DEFAULT_RUB_RATE)
\* for a bet in RUB (0 when that is Infinity), the amount itself otherwise
toUSDT(amount, b, rate) ==
  IF betUnit(b) # "RUB" THEN Q(amount, 1)
  ELSE IF rateOr(rate).kind = "inf" THEN Q(0, 1)
  ELSE Q(amount * 100, rateOr(rate).v)

\* ---------------------------------------------------------------- calcStats
\* eligible.reduce((a, b) => a + toUSDT(normalizedWinValue(b), b, rubRate), 0),
\* from entry i on
RECURSIVE SumProfit(_, _, _)
SumProfit(list, i, rate) ==
  IF i > Len(list) THEN Q(0, 1)
  ELSE QAdd(toUSDT(normalizedWinValue(list[i]), list[i], rate), SumProfit(list, i + 1, rate))

\* eligible.reduce((a, b) => a + toUSDT(Number(b.stake_value) || 0, b, rubRate), 0),
\* from entry i on
RECURSIVE SumStakes(_, _, _)
SumStakes(list, i, rate) ==
  IF i > Len(list) THEN Q(0, 1)
  ELSE QAdd(toUSDT(NumberOrZero(list[i].stake_value), list[i], rate), SumStakes(list, i + 1, rate))

\* eligible.reduce((a, b) => a + (Number(b.coef) || 0), 0), from entry i on
RECURSIVE SumCoef(_, _)
SumCoef(list, i) ==
  IF i > Len(list) THEN 0 ELSE NumberOrZero(list[i].coef) + SumCoef(list, i + 1)

IsEligible(b) == b.status # STATUS.PENDING
IsWon(b) == b.status = STATUS.WON

\* calcStats(bets, rubRate): winRate in percent, profitUSDT and the stake sum
\* as fractions of a hundredth, roi in tenths of a percent (the digits of
\* toFixed(1)), avgOdds in hundredths (the digits of toFixed(2))
calcStats(list, rate) ==
  LET eligible == SelectSeq(list, IsEligible)
      total == Len(eligible)
      won == Len(SelectSeq(eligible, IsWon))
      profitUSDT == SumProfit(eligible, 1, rate)
      sumStakesUSDT == SumStakes(eligible, 1, rate)
      \* profitUSDT / sumStakesUSDT as one fraction with a positive denominator
      num == profitUSDT.n * (IF sumStakesUSDT.n < 0 THEN 0 - 1 ELSE 1)
      den == Abs(sumStakesUSDT.n)
  IN  [total |-> total,
       winRate |-> IF total # 0 THEN MathRound(won * 100, total) ELSE 0,
       profitUSDT |-> profitUSDT,
       sumStakesUSDT |-> sumStakesUSDT,
       roi |-> IF sumStakesUSDT.n # 0 THEN toFixed(num, den, <<10, 10, 10>>) ELSE 0,
       avgOdds |-> IF total # 0 THEN toFixed(SumCoef(eligible, 1), total, << >>) ELSE 0]

\* --------------------------------------------------------------- calcStreak
\* list.findIndex(b => b.status !== STATUS.PENDING), 0 for -1
RECURSIVE firstDecided(_, _)
firstDecided(list, i) ==
  IF i > Len(list) THEN 0
  ELSE IF list[i].status # STATUS.PENDING THEN i
  ELSE firstDecided(list, i + 1)

\* the for loop of calcStreak from entry i on: count at its break or end
RECURSIVE countFrom(_, _, _)
countFrom(list, i, target) ==
  IF i > Len(list) THEN 0
  ELSE IF list[i].status = STATUS.PENDING THEN countFrom(list, i + 1, target)
  ELSE IF list[i].status # target THEN 0
  ELSE 1 + countFrom(list, i + 1, target)

\* the three kinds of a streak: 'побед', 'поражений', 'нет'
StreakKind == [won |-> "pobed", lost |-> "porazheniy", none |-> "net"]

\* the scan that a PENDING entry ends as well
RECURSIVE countFromStrict(_, _, _)
countFromStrict(list, i, target) ==
  IF i > Len(list) THEN 0
  ELSE IF list[i].status # target THEN 0
  ELSE 1 + countFromStrict(list, i + 1, target)

\* calcStreak on the strict scan
calcStreakStrict(list) ==
  IF Len(list) = 0 \/ firstDecided(list, 1) = 0 THEN [kind |-> StreakKind.none, count |-> 0]
  ELSE LET target == list[firstDecided(list, 1)].status
       IN  [kind |-> IF target = STATUS.WON THEN StreakKind.won ELSE StreakKind.lost,
            count |-> countFromStrict(list, firstDecided(list, 1), target)]

\* calcStreak(list)
calcStreak(list) ==
  IF Len(list) = 0 THEN [kind |-> StreakKind.none, count |-> 0]
  ELSE LET firstIdx == firstDecided(list, 1)
       IN  IF firstIdx = 0 THEN [kind |-> StreakKind.none, count |-> 0]
           ELSE LET target == list[firstIdx].status
                IN  [kind |-> IF target = STATUS.WON THEN StreakKind.won ELSE StreakKind.lost,
                     count |-> countFrom(list, firstIdx, target)]

\* ------------------------------------- the older page, src/client/src/App.jsx
\* all.slice(0, 15) of calcStreak and bets.slice(0, 15) of MobileHome
SliceLen == 15
last15(list) == SubSeq(list, 1, Min(SliceLen, Len(list)))

\* the two reduce() of calcStats(bets) of App.jsx from entry i on: profit and
\* sumStakes, amounts added whatever their currency
RECURSIVE SumsApp(_, _)
SumsApp(list, i) ==
  IF i > Len(list) THEN [profit |-> 0, sumStakes |-> 0]
  ELSE [profit |-> normalizedWinValueApp(list[i]) + SumsApp(list, i + 1).profit,
        sumStakes |-> NumberOrZero(list[i].stake_value) + SumsApp(list, i + 1).sumStakes]

\* calcStats(bets) of App.jsx, in the fields of calcStats above (profit and
\* sumStakes are kept in profitUSDT and sumStakesUSDT)
calcStatsApp(list) ==
  LET eligible == SelectSeq(list, IsEligible)
      total == Len(eligible)
      won == Len(SelectSeq(eligible, IsWon))
      sums == SumsApp(eligible, 1)
      num == sums.profit * (IF sums.sumStakes < 0 THEN 0 - 1 ELSE 1)
  IN  [total |-> total,
       winRate |-> IF total # 0 THEN MathRound(won * 100, total) ELSE 0,
       profitUSDT |-> Q(sums.profit, 1),
       sumStakesUSDT |-> Q(sums.sumStakes, 1),
       roi |-> IF sums.sumStakes # 0
               THEN toFixed(num, Abs(sums.sumStakes), <<10, 10, 10>>) ELSE 0,
       avgOdds |-> IF total # 0 THEN toFixed(SumCoef(eligible, 1), total, << >>) ELSE 0]

\* calcStreak(all) of App.jsx: the scan of calcStreak on the first 15 entries
calcStreakApp(all) == calcStreak(last15(all))

\* Date of the page's time zone. Local time: a day has TicksPerDay ticks,
\* days are counted from 01/01/2024, and tick 1 of the clock is the first
\* tick of Days[1]. getTime() of a local midnight is MidnightTime below.
IsLeap(y) == (y % 4 = 0 /\ y % 100 # 0) \/ y % 400 = 0
YearLen(y) == IF IsLeap(y) THEN 366 ELSE 365
DaysInMonth(y, mo) ==
  IF mo = 2 THEN (IF IsLeap(y) THEN 29 ELSE 28)
  ELSE IF mo \in {4, 6, 9, 11} THEN 30 ELSE 31

RECURSIVE DaysBeforeYear(_)
DaysBeforeYear(y) ==
  IF y = 2024 THEN 0
  ELSE IF y > 2024 THEN DaysBeforeYear(y - 1) + YearLen(y - 1)
  ELSE DaysBeforeYear(y + 1) - YearLen(y)

RECURSIVE DaysBeforeMonth(_, _)
DaysBeforeMonth(y, mo) ==
  IF mo = 1 THEN 0 ELSE DaysBeforeMonth(y, mo - 1) + DaysInMonth(y, mo - 1)

\* new Date(y, mo - 1, d): the day this names, a month outside 1..12 and a
\* day outside the month carried over into the neighbouring months and years
DayOfDate(y, mo, d) ==
  LET yy == y + ((mo - 1) \div 12)
      mm == ((mo - 1) % 12) + 1
  IN  DaysBeforeYear(yy) + DaysBeforeMonth(yy, mm) + (d - 1)

RECURSIVE YearOfDay(_, _)
YearOfDay(n, y) ==
  IF n < DaysBeforeYear(y) THEN YearOfDay(n, y - 1)
  ELSE IF n >= DaysBeforeYear(y + 1) THEN YearOfDay(n, y + 1)
  ELSE y

RECURSIVE MonthOfDay(_, _, _)
MonthOfDay(n, y, mo) ==
  IF n >= DaysBeforeYear(y) + DaysBeforeMonth(y, mo) + DaysInMonth(y, mo)
  THEN MonthOfDay(n, y, mo + 1)
  ELSE mo

\* getFullYear(), getMonth() + 1 and getDate() of new Date(ms)
DateOfMs(ms) ==
  LET n == ms \div TicksPerDay
      y == YearOfDay(n, 2024)
      mo == MonthOfDay(n, y, 1)
  IN  [y |-> y, mo |-> mo, d |-> n - DaysBeforeYear(y) - DaysBeforeMonth(y, mo) + 1]

\* new Date(y, mo - 1, d).getTime()
MsOfDate(y, mo, d) == DayOfDate(y, mo, d) * TicksPerDay

\* Date.now() when the clock shows t
DateNow(t) == MsOfDate(2025, 1, 1) + (t - 1)

\* the clock when the day y/mo/d begins
ClockOfDate(y, mo, d) == MsOfDate(y, mo, d) - MsOfDate(2025, 1, 1) + 1

\* 24*60*60*1000 of the WEEK branch, in hours
HoursPerDay == 24

\* the zone has daylight saving in 2025: the clocks go forward one hour at
\* 02:00 of SpringDay and back one hour at 03:00 of AutumnDay, so the local
\* midnights after SpringDay up to AutumnDay are in summer time
SpringDay == DayOfDate(2025, 3, 30)
AutumnDay == DayOfDate(2025, 10, 26)
SummerTime(n) == n > SpringDay /\ n <= AutumnDay

\* getTime() of the local midnight ms, in hours: new Date(y, mo, d).getTime()
MidnightTime(ms) ==
  LET n == ms \div TicksPerDay
  IN  n * HoursPerDay - (IF SummerTime(n) THEN 1 ELSE 0)

\* --------------------------------------------------------------------- text
Digits == <<"0", "1", "2", "3", "4", "5", "6", "7", "8", "9">>
IsDigit(c) == \E k \in 1..10 : Digits[k] = c
DigitValue(c) == (CHOOSE k \in 1..10 : Digits[k] = c) - 1

\* Number(s) for a text of digits
RECURSIVE NumberOfDigits(_)
NumberOfDigits(s) ==
  IF s = << >> THEN 0
  ELSE NumberOfDigits(SubSeq(s, 1, Len(s) - 1)) * 10 + DigitValue(s[Len(s)])

\* String(n) for 0 <= n <= 9999
RECURSIVE StringOfNat(_)
StringOfNat(n) ==
  IF n < 10 THEN <<Digits[n + 1]>> ELSE Append(StringOfNat(n \div 10), Digits[(n % 10) + 1])

\* String(n).padStart(2, '0')
pad2(n) == IF Len(StringOfNat(n)) < 2 THEN <<"0">> \o StringOfNat(n) ELSE StringOfNat(n)

\* s.trim()
RECURSIVE trim(_)
trim(s) ==
  IF s = << >> THEN s
  ELSE IF Head(s) = " " THEN trim(Tail(s))
  ELSE IF s[Len(s)] = " " THEN trim(SubSeq(s, 1, Len(s) - 1))
  ELSE s

\* todayDMY() when the clock shows t
todayDMY(t) ==
  LET dt == DateOfMs(DateNow(t))
  IN  pad2(dt.d) \o <<"/">> \o pad2(dt.mo) \o <<"/">> \o StringOfNat(dt.y)

\* /^(\d{1,2})\/(\d{1,2})\/(\d{4})$/.exec(s): the three groups, or no match
AllDigits(s) == \A i \in 1..Len(s) : IsDigit(s[i])
NoMatch == [ok |-> FALSE, d |-> << >>, mo |-> << >>, y |-> << >>]
execDMY(s) ==
  LET slashes == {i \in 1..Len(s) : s[i] = "/"}
  IN  IF Cardinality(slashes) # 2 THEN NoMatch
      ELSE LET i == CHOOSE k \in slashes : \A l \in slashes : k <= l
               j == CHOOSE k \in slashes : \A l \in slashes : k >= l
               g1 == SubSeq(s, 1, i - 1)
               g2 == SubSeq(s, i + 1, j - 1)
               g3 == SubSeq(s, j + 1, Len(s))
           IN  IF /\ Len(g1) \in 1..2 /\ Len(g2) \in 1..2 /\ Len(g3) = 4
                  /\ AllDigits(g1) /\ AllDigits(g2) /\ AllDigits(g3)
               THEN [ok |-> TRUE, d |-> g1, mo |-> g2, y |-> g3]
               ELSE NoMatch

\* --------------------------------------------------------- the window filter
\* parseDMYtoMs without the comparison of the date built with the groups
parseDMYtoMsNaive(dmy) ==
  LET m == execDMY(trim(dmy))
  IN  IF ~m.ok THEN NaN
      ELSE Num(MsOfDate(NumberOfDigits(m.y), NumberOfDigits(m.mo), NumberOfDigits(m.d)))

\* parseDMYtoMs(dmy)
parseDMYtoMs(dmy) ==
  LET m == execDMY(trim(dmy))
  IN  IF ~m.ok THEN NaN
      ELSE LET d == NumberOfDigits(m.d)
               mo == NumberOfDigits(m.mo)
               y == NumberOfDigits(m.y)
               dt == DateOfMs(MsOfDate(y, mo, d))
           IN  IF dt.y # y \/ dt.mo # mo \/ dt.d # d THEN NaN
               ELSE Num(MsOfDate(y, mo, d))

\* startOfDayMs(ms)
startOfDayMs(ms) ==
  LET dt == DateOfMs(ms) IN MsOfDate(dt.y, dt.mo, dt.d)

\* the week that ends with yesterday
weekWindowPast(t) ==
  LET todayMs == MidnightTime(startOfDayMs(DateNow(t)))
  IN  [startMs |-> todayMs - 6 * HoursPerDay, endMs |-> todayMs - 1]

\* startMs and endMs of the WEEK branch, in hours. The - 1 of endMs is one
\* millisecond in the code; every time compared with endMs is a whole hour,
\* so one hour less selects the same times
weekWindow(t) ==
  LET todayMs == MidnightTime(startOfDayMs(DateNow(t)))
  IN  [startMs |-> todayMs - 6 * HoursPerDay, endMs |-> todayMs + HoursPerDay - 1]

\* startMonthMs and startNextMonthMs of the MONTH branch
monthWindow(t) ==
  LET dt == DateOfMs(DateNow(t))
  IN  [startMonthMs |-> MsOfDate(dt.y, dt.mo, 1),
       startNextMonthMs |-> MsOfDate(dt.y, dt.mo + 1, 1)]

\* the test of the filter callback of filterBetsByAddedDate for the period
inPeriod(b, per, t) ==
  IF per = "DAY" THEN trim(b.added_date) = todayDMY(t)
  ELSE LET ms == parseDMYtoMs(b.added_date)
       IN  IF per = "WEEK"
           THEN /\ ms.kind = "num"
                /\ MidnightTime(ms.v) >= weekWindow(t).startMs
                /\ MidnightTime(ms.v) <= weekWindow(t).endMs
           ELSE /\ ms.kind = "num"
                /\ ms.v >= monthWindow(t).startMonthMs
                /\ ms.v < monthWindow(t).startNextMonthMs

\* filterBetsByAddedDate(bets, period) when the clock shows t
filterBetsByAddedDate(list, per, t) == SelectSeq(list, LAMBDA b : inPeriod(b, per, t))

\* ------------------------------------------------------------------- import
\* normalizeImportedBet with the win of a won bet left unrounded: the product
\* of stake and odds cut to hundredths
normalizeImportedBetCut(b) ==
  LET status == IF b.status \in {STATUS.WON, STATUS.LOST, STATUS.PENDING}
                THEN b.status ELSE STATUS.PENDING
      stake == NumberOrZero(b.stake_value)
      coef == NumberOrZero(b.coef)
      win == IF NumberOf(b.win_value).kind = "nan"
             THEN IF status = STATUS.WON THEN (stake * coef) \div 100
                  ELSE IF status = STATUS.LOST THEN 0 - Abs(stake)
                  ELSE 0
             ELSE NumberOf(b.win_value).v
      stake_currency == IF Falsy(b.stake_currency) THEN "USDT" ELSE b.stake_currency
  IN  [id |-> IF Falsy(b.id) THEN "generated" ELSE StringOf(b.id),
       status |-> status,
       stake_value |-> Num(stake),
       stake_currency |-> stake_currency,
       coef |-> Num(coef),
       win_value |-> Num(win),
       win_currency |-> IF Falsy(b.win_currency) THEN stake_currency ELSE b.win_currency]

\* normalizeImportedBet(b); time, match and bet are carried along and left
\* out here, and an id made of Date.now() and Math.random() reads "generated"
normalizeImportedBet(b) ==
  LET status == IF b.status \in {STATUS.WON, STATUS.LOST, STATUS.PENDING}
                THEN b.status ELSE STATUS.PENDING
      stake == NumberOrZero(b.stake_value)
      coef == NumberOrZero(b.coef)
      win == IF NumberOf(b.win_value).kind = "nan"
             THEN IF status = STATUS.WON THEN round2Product(stake, coef)
                  ELSE IF status = STATUS.LOST THEN 0 - Abs(stake)
                  ELSE 0
             ELSE NumberOf(b.win_value).v
      stake_currency == IF Falsy(b.stake_currency) THEN "USDT" ELSE b.stake_currency
  IN  [id |-> IF Falsy(b.id) THEN "generated" ELSE StringOf(b.id),
       status |-> status,
       stake_value |-> Num(stake),
       stake_currency |-> stake_currency,
       coef |-> Num(coef),
       win_value |-> Num(win),
       win_currency |-> IF Falsy(b.win_currency) THEN stake_currency ELSE b.win_currency]

\* ---------------------------------------------------------------- MobileHome
\* no rate reply or notification was handled in the step
NoRate == [kind |-> "none", v |-> 0]

\* the render after bets or period changed: the three useMemo values
renderHome(v, list, per) ==
  /\ filtered' = [filtered EXCEPT ![v] = filterBetsByAddedDate(list, per, now)]
  /\ stats' = [stats EXCEPT ![v] = calcStats(filtered'[v], rubRate[v])]
  /\ streak' = [streak EXCEPT ![v] = calcStreak(filtered'[v])]

\* fetchBets().then(d => { if(mounted) setBets(d) }) with the collection
\* list that GET /api/bets answered, and the render of MobileHome that follows
HomeBets(v, list) ==
  /\ mounted[v]
  /\ betsFetch[v].state = "sent"
  /\ betsFetch' = [betsFetch EXCEPT ![v] = [state |-> "done", data |-> << >>]]
  /\ bets' = [bets EXCEPT ![v] = list]
  /\ renderHome(v, list, period[v])
  /\ rateIn' = [rateIn EXCEPT ![v] = NoRate]
  /\ Quiet
  /\ UNCHANGED <<now, serverVars, sockets, mounted, lastEventAt, stored, connected, wire,
                 metaPending, metaReplies, lastApplied, missed,
                 period, rubRate, importDoc, importItems, formVars>>

\* fetchBets().then(d => { if(mounted) setBets(d) }) in the page of App.jsx and
\* the render of its MobileHome: last15 (kept in filtered), stats15, streak
AppBets(v, list) ==
  /\ mounted[v]
  /\ betsFetch[v].state = "sent"
  /\ betsFetch' = [betsFetch EXCEPT ![v] = [state |-> "done", data |-> << >>]]
  /\ bets' = [bets EXCEPT ![v] = list]
  /\ filtered' = [filtered EXCEPT ![v] = last15(list)]
  /\ stats' = [stats EXCEPT ![v] = calcStatsApp(last15(list))]
  /\ streak' = [streak EXCEPT ![v] = calcStreakApp(list)]
  /\ rateIn' = [rateIn EXCEPT ![v] = NoRate]
  /\ Quiet
  /\ UNCHANGED <<now, serverVars, sockets, mounted, lastEventAt, stored, connected, wire,
                 metaPending, metaReplies, lastApplied, missed,
                 period, rubRate, importDoc, importItems, formVars>>

\* setPeriod(per) of the period buttons and the render that follows
SetPeriod(v, per) ==
  /\ mounted[v]
  /\ period' = [period EXCEPT ![v] = per]
  /\ renderHome(v, bets[v], per)
  /\ rateIn' = [rateIn EXCEPT ![v] = NoRate]
  /\ Quiet
  /\ UNCHANGED <<now, serverVars, sockets, viewerVars, rubRate, importDoc, importItems, formVars>>

\* fetchRate(): reply.ok is r.ok (FALSE for a failed fetch as well),
\* reply.rubPerUsdt is j?.rubPerUsdt
fetchRate(reply) ==
  IF reply.ok /\ IsFinitePositive(NumberOf(reply.rubPerUsdt))
  THEN NumberOf(reply.rubPerUsdt)
  ELSE Num(DEFAULT_RUB_RATE)

\* the rate:update handler without its test of the value
onRateUpdateAny(data, old) == NumberOf(data)

\* socket.on('rate:update'): the rubRate it leaves, data being data?.rubPerUsdt
onRateUpdate(data, old) ==
  IF IsFinitePositive(NumberOf(data)) THEN NumberOf(data) ELSE old

\* the render after rubRate changed: stats alone is computed again
renderRate(v) ==
  /\ stats' = [stats EXCEPT ![v] = calcStats(filtered[v], rubRate'[v])]
  /\ UNCHANGED <<filtered, streak>>

\* fetchRate().then(v => { if(mounted) setRubRate(v) })
RateFetched(v, reply) ==
  /\ mounted[v]
  /\ rateIn' = [rateIn EXCEPT ![v] = IF reply.ok THEN NumberOf(reply.rubPerUsdt) ELSE NaN]
  /\ rubRate' = [rubRate EXCEPT ![v] = fetchRate(reply)]
  /\ renderRate(v)
  /\ Quiet
  /\ UNCHANGED <<now, serverVars, sockets, viewerVars, period, importDoc, importItems, formVars>>

\* socket.on('rate:update', data => ...)
OnRateUpdate(v, data) ==
  /\ mounted[v]
  /\ rateIn' = [rateIn EXCEPT ![v] = NumberOf(data)]
  /\ rubRate' = [rubRate EXCEPT ![v] = onRateUpdate(data, rubRate[v])]
  /\ renderRate(v)
  /\ Quiet
  /\ UNCHANGED <<now, serverVars, sockets, viewerVars, period, importDoc, importItems, formVars>>

\* --------------------------------------------------------------------- Admin
NoDoc == [isArray |-> FALSE, items |-> << >>]

\* the messages of setImportInfo: none yet, 'Файл: ... найдено записей', 'Ошибка
\* импорта: ' + message, 'Сначала выберите JSON-файл', 'Ошибка импорта
\* (авторизация?)', 'Импорт завершён'
Info == [none |-> "", found |-> "found", error |-> "error", choose |-> "choose first",
         failed |-> "failed", done |-> "done"]

\* no importAddMerge() is in flight
NoRun == [pc |-> "idle", items |-> << >>, current |-> << >>, ok |-> FALSE]

\* onChooseFile that leaves the staged records when the document is no array
ChooseFileKeep(doc) ==
  /\ importDoc' = doc
  /\ importItems' = IF doc.isArray
                    THEN [i \in 1..Len(doc.items) |-> normalizeImportedBet(doc.items[i])]
                    ELSE importItems
  /\ importInfo' = IF doc.isArray THEN Info.found ELSE Info.error
  /\ Quiet
  /\ UNCHANGED <<now, serverVars, sockets, viewerVars, period, rubRate, rateIn,
                 filtered, stats, streak, importRun>>

\* onChooseFile(e): doc is JSON.parse(text), or no array when that throws
ChooseFile(doc) ==
  /\ importDoc' = doc
  /\ importItems' = IF doc.isArray
                    THEN [i \in 1..Len(doc.items) |-> normalizeImportedBet(doc.items[i])]
                    ELSE << >>
  /\ importInfo' = IF doc.isArray THEN Info.found ELSE Info.error
  /\ Quiet
  /\ UNCHANGED <<now, serverVars, sockets, viewerVars, period, rubRate, rateIn,
                 filtered, stats, streak, importRun>>

\* importAddMerge() with nothing staged: the message, and return
ImportNothing ==
  /\ importItems = << >>
  /\ importInfo' = Info.choose
  /\ Quiet
  /\ UNCHANGED <<now, serverVars, sockets, viewerVars, clientVars, importRun>>

\* importAddMerge(), first half: GET /api/bets is answered with the current
\* list; importItems is the value the click saw (one import runs at a time,
\* and the merged list is no longer than the longest collection)
ImportRead ==
  /\ importItems # << >>
  /\ importRun.pc = "idle"
  /\ Len(importItems) + Len(cache) <= MaxLen
  /\ importRun' = [pc |-> "read", items |-> importItems, current |-> cache, ok |-> FALSE]
  /\ Quiet
  /\ UNCHANGED <<now, serverVars, sockets, viewerVars, clientVars, importInfo>>

\* an imported record as the server keeps it (id, added_date, status):
\* normalizeImportedBet returns no added_date
ImportedRec(b) == Rec(b.id, Absent, b.status)

\* [...importItems.slice().reverse(), ...current]
merged(items, current) ==
  [i \in 1..Len(items) |-> ImportedRec(items[Len(items) + 1 - i])] \o current

\* importAddMerge(), the PUT of the merged list: the server handles it, r.ok
\* is on its way back
ImportPut(pw, outcome, t2) ==
  /\ importRun.pc = "read"
  /\ PutBets(pw, [isArray |-> TRUE, items |-> merged(importRun.items, importRun.current)],
             outcome, t2)
  /\ importRun' = [importRun EXCEPT !.pc = "answered", !.ok = (lastRes' = 200)]
  /\ importInfo' = importInfo

\* importAddMerge(), after the PUT: the message, and the staged records are
\* dropped when r.ok
ImportDone ==
  /\ importRun.pc = "answered"
  /\ importRun' = NoRun
  /\ importInfo' = IF importRun.ok THEN Info.done ELSE Info.failed
  /\ importItems' = IF importRun.ok THEN << >> ELSE importItems
  /\ Quiet
  /\ UNCHANGED <<now, serverVars, sockets, viewerVars, period, rubRate, rateIn,
                 filtered, stats, streak, importDoc>>

\* -------------------------------------------------------------------- Init
\* the server has started: cache = readBets(), rateCache = readRate(), and the
\* listen callback has written the rate file; no page is open
Started(clock) ==
  /\ now = clock
  /\ betsFile \in {NoFile, [state |-> "ok", data |-> << >>]}
  /\ betsMtime = IF betsFile.state = "absent" THEN 0 ELSE 1
  /\ cache = readBets(betsFile)
  /\ lastBackup = [stamp |-> 0, text |-> << >>]
  /\ rateFile = [rubPerUsdt |-> DEFAULT_RUB_RATE, updatedAt |-> 0]
  /\ rateCache = DEFAULT_RUB_RATE
  /\ sockets = {}
  /\ emitted = NoEmitted
  /\ lastReq = NoReq
  /\ lastRes = 0
  /\ mounted = [v \in Viewers |-> FALSE]
  /\ bets = [v \in Viewers |-> << >>]
  /\ lastEventAt = [v \in Viewers |-> 0]
  /\ stored = [v \in Viewers |-> 0]
  /\ connected = [v \in Viewers |-> FALSE]
  /\ wire = [v \in Viewers |-> << >>]
  /\ betsFetch = [v \in Viewers |-> [state |-> "none", data |-> << >>]]
  /\ metaPending = [v \in Viewers |-> 0]
  /\ metaReplies = [v \in Viewers |-> [t \in 0..MaxTime |-> 0]]
  /\ lastApplied = [v \in Viewers |-> NoPayload]
  /\ missed = [v \in Viewers |-> FALSE]
  /\ period = [v \in Viewers |-> "DAY"]
  /\ rubRate = [v \in Viewers |-> Num(DEFAULT_RUB_RATE)]
  /\ rateIn = [v \in Viewers |-> NoRate]
  /\ filtered = [v \in Viewers |-> << >>]
  /\ stats = [v \in Viewers |-> calcStats(<< >>, Num(DEFAULT_RUB_RATE))]
  /\ streak = [v \in Viewers |-> calcStreak(<< >>)]
  /\ importDoc = NoDoc
  /\ importItems = << >>
  /\ importInfo = Info.none
  /\ importRun = NoRun

\* the clock shows 1 when the server starts
Init == Started(1)

\* ------------------------------------- Spec: the server and its subscribers
\* the file system works; every request comes with a bad credential too, with
\* a body that would otherwise be served
ReqPut ==
  \E pw \in BadPasswords \cup {ADMIN_PASSWORD}, body \in SmallPuts, t2 \in EmitTimes :
    /\ Authorized(pw) \/ (body = [isArray |-> TRUE, items |-> << >>] /\ t2 = now)
    /\ PutBets(pw, body, "ok", t2) /\ UNCHANGED formVars
ReqPost ==
  \E pw \in BadPasswords \cup {ADMIN_PASSWORD}, obj \in SmallPosts, t2 \in EmitTimes :
    /\ Len(cache) < MaxLen
    /\ Authorized(pw) \/ t2 = now
    /\ PostBet(pw, obj, "ok", t2) /\ UNCHANGED formVars
ReqPatch ==
  \E pw \in BadPasswords \cup {ADMIN_PASSWORD}, id \in SmallUrlIds, p \in SmallPatches, t2 \in EmitTimes :
    /\ Authorized(pw) \/ t2 = now
    /\ PatchBet(pw, id, p, "ok", t2) /\ UNCHANGED formVars
ReqDelete ==
  \E pw \in BadPasswords \cup {ADMIN_PASSWORD}, id \in SmallUrlIds, t2 \in EmitTimes :
    /\ Authorized(pw) \/ t2 = now
    /\ DeleteBet(pw, id, "ok", t2) /\ UNCHANGED formVars
ReqPutRate ==
  \E pw \in BadPasswords \cup {ADMIN_PASSWORD}, val \in RateInputs, ok \in BOOLEAN :
    /\ Authorized(pw) \/ (ValidRate(val) /\ ok)
    /\ PutRate(pw, val, ok) /\ UNCHANGED formVars
Connects == \E s \in Others : SocketConnect(s)
Disconnects == \E s \in Others : SocketDisconnect(s)

Next ==
  \/ ReqPut
  \/ ReqPost
  \/ ReqPatch
  \/ ReqDelete
  \/ ReqPutRate
  \/ Connects
  \/ Disconnects
  \/ Tick

Spec == Init /\ [][Next]_vars

\* ------------------------ FaultSpec: the admin's requests on failing disks
\* (the broadcast leaves at the time of the request: later emit times are Spec's)
FaultPut == \E body \in SmallPuts, o \in WriteOutcomes, t2 \in {now} :
              PutBets(ADMIN_PASSWORD, body, o, t2) /\ UNCHANGED formVars
FaultPost == \E obj \in SmallPosts, o \in WriteOutcomes, t2 \in {now} :
               /\ Len(cache) < MaxLen
               /\ PostBet(ADMIN_PASSWORD, obj, o, t2) /\ UNCHANGED formVars
FaultPatch == \E id \in SmallUrlIds, p \in SmallPatches, o \in WriteOutcomes, t2 \in {now} :
                PatchBet(ADMIN_PASSWORD, id, p, o, t2) /\ UNCHANGED formVars
FaultDelete == \E id \in SmallUrlIds, o \in WriteOutcomes, t2 \in {now} :
                 DeleteBet(ADMIN_PASSWORD, id, o, t2) /\ UNCHANGED formVars
FaultConnects == SocketConnect("x1")
FaultDisconnects == SocketDisconnect("x1")

FaultNext ==
  \/ FaultPut
  \/ FaultPost
  \/ FaultPatch
  \/ FaultDelete
  \/ FaultConnects
  \/ FaultDisconnects
  \/ Tick

FaultSpec == Init /\ [][FaultNext]_vars

\* ------------------------- DataSpec: the records the admin requests carry
DataPut == \E body \in PutBodies : PutBets(ADMIN_PASSWORD, body, "ok", now) /\ UNCHANGED formVars
DataPost ==
  /\ Len(cache) < MaxLen
  /\ \E obj \in PostBodies : PostBet(ADMIN_PASSWORD, obj, "ok", now) /\ UNCHANGED formVars
DataPatch == \E id \in UrlIds, p \in Patches : PatchBet(ADMIN_PASSWORD, id, p, "ok", now) /\ UNCHANGED formVars
DataDelete == \E id \in UrlIds : DeleteBet(ADMIN_PASSWORD, id, "ok", now) /\ UNCHANGED formVars

DataNext ==
  \/ DataPut
  \/ DataPost
  \/ DataPatch
  \/ DataDelete
  \/ Tick

DataSpec == Init /\ [][DataNext]_vars

\* ------------------ SyncSpec: one viewer's page and the admin's requests
WireRoom == \A v \in Viewers : Len(wire[v]) < MaxWire

SyncPost == \E t2 \in EmitTimes :
              /\ Len(cache) < MaxLen /\ WireRoom
              /\ PostBet(ADMIN_PASSWORD, RecA, "ok", t2) /\ UNCHANGED formVars
SyncDelete == \E t2 \in EmitTimes :
                /\ WireRoom
                /\ DeleteBet(ADMIN_PASSWORD, "a", "ok", t2) /\ UNCHANGED formVars
Mounts == \E v \in Viewers : Mount(v)
ViewerConnects == \E v \in Viewers : Connect(v)
ViewerDisconnects == \E v \in Viewers : Disconnect(v)
ServesBets == \E v \in Viewers : ServeBets(v)
DeliversBets == \E v \in Viewers : DeliverBets(v)
ServesMeta == \E v \in Viewers : ServeMeta(v)
DeliversMeta == \E v \in Viewers, ts \in 0..MaxTime : DeliverMeta(v, ts)
Handles == \E v \in Viewers : OnBetsUpdate(v)

SyncNext ==
  \/ SyncPost
  \/ SyncDelete
  \/ Mounts
  \/ ViewerConnects
  \/ ViewerDisconnects
  \/ ServesBets
  \/ DeliversBets
  \/ ServesMeta
  \/ DeliversMeta
  \/ Handles
  \/ Tick

SyncSpec == Init /\ [][SyncNext]_vars

\* ------------- HandlerSpec: the bets:update handler on every payload shape
PushLists == {<< >>, <<RecA>>}
PushPayloads ==
  {Payload("array", l, 0) : l \in PushLists}
  \cup {Payload("object", l, t) : l \in PushLists, t \in 0..MaxTime}
  \cup {Payload("empty", << >>, 0), Payload("other", << >>, 0)}

Transports == \E v \in Viewers, p \in PushPayloads : Transport(v, p)

HandlerNext ==
  \/ Mounts
  \/ ViewerConnects
  \/ Transports
  \/ Handles
  \/ ServesMeta
  \/ DeliversMeta
  \/ Tick

HandlerSpec == Init /\ [][HandlerNext]_vars

\* ----------- OrderSpec: the order of the collection under the requests
\* records of two ids, one dated by the admin and one by the server, which a
\* PATCH that names status alone turns from WON to LOST
OrderPosts == {Rec("a", UserDate, "WON"), Rec("b", Absent, "WON")}
OrderIds == {"a", "b"}
StatusPatch == Rec(Absent, Absent, "LOST")
OrderPost == \E obj \in OrderPosts :
               /\ Len(cache) < MaxOrder
               /\ PostBet(ADMIN_PASSWORD, obj, "ok", now) /\ UNCHANGED formVars
OrderPatch == \E id \in OrderIds :
                PatchBet(ADMIN_PASSWORD, id, StatusPatch, "ok", now) /\ UNCHANGED formVars
OrderDelete == \E id \in OrderIds : DeleteBet(ADMIN_PASSWORD, id, "ok", now) /\ UNCHANGED formVars

OrderNext ==
  \/ OrderPost
  \/ OrderPatch
  \/ OrderDelete
  \/ Mounts
  \/ ServesBets

OrderSpec == Init /\ [][OrderNext]_vars

DropPost == /\ Len(cache) < MaxLen /\ WireRoom
            /\ PostBet(ADMIN_PASSWORD, RecA, "ok", now) /\ UNCHANGED formVars
FailsBets == \E v \in Viewers : FailBets(v)
FailsMeta == \E v \in Viewers : FailMeta(v)

DropNext ==
  \/ DropPost
  \/ Mounts
  \/ ViewerConnects
  \/ ViewerDisconnects
  \/ ServesBets
  \/ DeliversBets
  \/ FailsBets
  \/ ServesMeta
  \/ FailsMeta
  \/ DeliversMeta
  \/ Handles
  \/ Tick

DropSpec == Init /\ [][DropNext]_vars

\* ---------------- WindowSpec: the window filter of MobileHome on every date
\* the text DD/MM/YYYY of three numbers
DMY(d, mo, y) == pad2(d) \o <<"/">> \o pad2(mo) \o <<"/">> \o StringOfNat(y)
Today == DMY(1, 1, 2025)
\* texts that are no DD/MM/YYYY: 1/1/2025 and the padded date between spaces
\* parse, the date with dashes does not
Unpadded == <<"1", "/", "1", "/", "2", "0", "2", "5">>
Spaced == <<" ">> \o Today \o <<" ">>
Dashed == <<"2", "0", "2", "5", "-", "0", "1", "-", "0", "1">>
\* texts of the right form that name no day of the calendar; new Date() turns
\* the first into 01/01/2025 and the second into 02/03/2024
ImpossibleDates == {DMY(32, 12, 2024), DMY(31, 2, 2024)}
WindowDates ==
  {Today, DMY(2, 1, 2025), DMY(31, 12, 2024), DMY(26, 12, 2024), DMY(25, 12, 2024),
   Unpadded, Spaced, Dashed, << >>} \cup ImpossibleDates
WindowRecords ==
  {Bet("a", ad, STATUS.WON, Num(1000), "USDT", Num(200), Num(2000), "USDT") : ad \in WindowDates}
WindowLists == SeqsUpTo(WindowRecords, MaxLen)
Periods == {"DAY", "WEEK", "MONTH"}

WindowBets == \E v \in Viewers, list \in WindowLists : HomeBets(v, list)
SetsPeriod == \E v \in Viewers, per \in Periods : SetPeriod(v, per)

WindowNext ==
  \/ Mounts
  \/ WindowBets
  \/ SetsPeriod
  \/ Tick

WindowSpec == Init /\ [][WindowNext]_vars

\* ------ ZoneSpec: the window filter around the two changes of the clocks
\* the page is opened on the day the clocks change, the day after, and six
\* and seven days after the autumn change
ZoneTimes ==
  {ClockOfDate(2025, 3, 30), ClockOfDate(2025, 3, 31), ClockOfDate(2025, 4, 6),
   ClockOfDate(2025, 10, 26), ClockOfDate(2025, 10, 27), ClockOfDate(2025, 11, 1),
   ClockOfDate(2025, 11, 2)}
ZoneDates ==
  {DMY(23, 3, 2025), DMY(24, 3, 2025), DMY(30, 3, 2025), DMY(31, 3, 2025), DMY(1, 4, 2025),
   DMY(20, 10, 2025), DMY(21, 10, 2025), DMY(26, 10, 2025), DMY(27, 10, 2025),
   DMY(28, 10, 2025), DMY(1, 11, 2025), DMY(2, 11, 2025)}
ZoneRecords ==
  {Bet("a", ad, STATUS.WON, Num(1000), "USDT", Num(200), Num(2000), "USDT") : ad \in ZoneDates}
ZoneLists == SeqsUpTo(ZoneRecords, MaxLen)

ZoneInit == \E t \in ZoneTimes : Started(t)
ZoneBets == \E v \in Viewers, list \in ZoneLists : HomeBets(v, list)

ZoneNext ==
  \/ Mounts
  \/ ZoneBets
  \/ SetsPeriod

ZoneSpec == ZoneInit /\ [][ZoneNext]_vars

AmountRecords ==
  {Bet("a", Today, st, stake, cur, coef, win, cur) :
     st \in {STATUS.WON, STATUS.LOST, STATUS.PENDING},
     stake \in {Num(1000), Num(0), Num(0 - 500), Undefined},
     cur \in {"USDT", "RUB", Absent},
     coef \in {Num(300), Undefined},
     win \in {Num(3000), Num(0), Num(0 - 700), Undefined}}
FewRecords ==
  {Bet("a", Today, STATUS.WON, Num(1000), "USDT", Num(300), Num(3000), "USDT"),
   Bet("b", Today, STATUS.LOST, Num(1000), "USDT", Num(200), Num(0), "USDT"),
   Bet("c", Today, STATUS.PENDING, Num(500), "USDT", Num(150), Num(900), "USDT"),
   Bet("d", Today, STATUS.WON, Num(2000), "RUB", Num(250), Num(5000), "RUB"),
   Bet("e", Today, STATUS.PENDING, Num(700), "RUB", Num(180), Num(0), "RUB"),
   \* a status that is none of the three of STATUS
   Bet("f", Today, "VOID", Num(400), "USDT", Num(200), Num(0), "USDT")}
HomeLists == {<<b>> : b \in AmountRecords} \cup SeqsUpTo(FewRecords, MaxLen)
\* data?.rubPerUsdt of a notification, j?.rubPerUsdt of a reply
RateValues == {Num(9000), Num(100), Num(0), Num(0 - 100), NaN, Undefined, JsonNull,
               [kind |-> "inf", v |-> 0]}
RateReplies == [ok : BOOLEAN, rubPerUsdt : RateValues]

HomeReceives == \E v \in Viewers, list \in HomeLists : HomeBets(v, list)
RatesFetched == \E v \in Viewers, reply \in RateReplies : RateFetched(v, reply)
RateUpdates == \E v \in Viewers, data \in RateValues : OnRateUpdate(v, data)

HomeNext ==
  \/ Mounts
  \/ HomeReceives
  \/ RatesFetched
  \/ RateUpdates

HomeSpec == Init /\ [][HomeNext]_vars

\* ------------------- StreakSpec: calcStreak on every sequence of statuses
MaxStreak == 5
StreakRecords ==
  {Bet("a", Today, st, Num(1000), "USDT", Num(200), Num(2000), "USDT") :
     st \in {STATUS.WON, STATUS.LOST, STATUS.PENDING}}
StreakLists == SeqsUpTo(StreakRecords, MaxStreak)

StreakBets == \E v \in Viewers, list \in StreakLists : HomeBets(v, list)

StreakNext ==
  \/ Mounts
  \/ StreakBets

StreakSpec == Init /\ [][StreakNext]_vars

\* ------------- LegacySpec: the page of src/client/src/App.jsx on its bets
\* a run of won bets of today, one entry longer than the slice
LongRun ==
  [i \in 1..(SliceLen + 1) |->
     Bet("a", Today, STATUS.WON, Num(1000), "USDT", Num(200), Num(2000), "USDT")]
LegacyLists == StreakLists \cup {LongRun}

LegacyBets == \E v \in Viewers, list \in LegacyLists : AppBets(v, list)

LegacyNext ==
  \/ Mounts
  \/ LegacyBets

LegacySpec == Init /\ [][LegacyNext]_vars

RawBet(id, st, stake, scur, coef, win, wcur) ==
  [id |-> id, status |-> st, stake_value |-> stake, stake_currency |-> scur,
   coef |-> coef, win_value |-> win, win_currency |-> wcur]
RawRecords ==
  {RawBet(id, st, stake, cur, coef, win, Absent) :
     id \in {"a", Absent},
     st \in {STATUS.WON, STATUS.LOST, STATUS.PENDING, "VOID"},
     stake \in {Num(1000), Num(33), Num(0 - 500), Undefined},
     cur \in {Absent, "RUB"},
     coef \in {Num(300), Num(133), Undefined},
     win \in {Undefined, JsonNull, JsonText, Num(2500)}}
FewRaw ==
  {RawBet("a", STATUS.WON, Num(1000), Absent, Num(300), Undefined, Absent),
   RawBet(Absent, STATUS.LOST, Num(33), "RUB", Num(133), Undefined, Absent)}
ImportDocs ==
  {[isArray |-> TRUE, items |-> <<b>>] : b \in RawRecords}
  \cup ArrayBodies(FewRaw) \cup {NonArray}

ChoosesFile == \E doc \in ImportDocs : ChooseFile(doc)

ImportNext == ChoosesFile

ImportSpec == Init /\ [][ImportNext]_vars

\* ------- MergeSpec: the import next to the requests of another admin
MergeDocs == ArrayBodies(FewRaw) \cup {NonArray}
MergeChooses == \E doc \in MergeDocs : ChooseFile(doc)
MergePuts == \E pw \in {ADMIN_PASSWORD, "wrong"} : ImportPut(pw, "ok", now)
MergePost == /\ Len(cache) < MaxLen
             /\ PostBet(ADMIN_PASSWORD, RecA, "ok", now) /\ UNCHANGED formVars
MergePatch == PatchBet(ADMIN_PASSWORD, "a", StatusPatch, "ok", now) /\ UNCHANGED formVars
MergeDelete == DeleteBet(ADMIN_PASSWORD, "a", "ok", now) /\ UNCHANGED formVars

MergeNext ==
  \/ MergeChooses
  \/ ImportNothing
  \/ ImportRead
  \/ MergePuts
  \/ ImportDone
  \/ MergePost
  \/ MergePatch
  \/ MergeDelete

MergeSpec == Init /\ [][MergeNext]_vars

\* ================================================================== claims
\* the collection is on disk: BETS_FILE and the newest backup hold this list
Persisted(list) ==
  /\ betsFile = [state |-> "ok", data |-> list]
  /\ lastBackup.text = list
  /\ lastBackup.stamp = betsMtime

\* C1: a mutating request (PUT, POST, PATCH, DELETE on the bets, PUT on the
\* rate) whose credential is absent or wrong is answered 401 and changes
\* nothing: collection, bets file, its mtime (the marker), backups, rate and
\* rate file stay as they were and nothing is emitted.
C1_UnauthorizedChangesNothing ==
  [][(lastReq'.op # "none" /\ lastReq'.pw # ADMIN_PASSWORD) =>
       /\ lastRes' = 401
       /\ UNCHANGED <<serverVars, wire>>
       /\ emitted' = NoEmitted]_vars

\* C1 witness: a DELETE of a stored id with a wrong password was answered 401
\* while subscribers were connected
C1_Witness ==
  /\ lastRes = 401 /\ lastReq.op = "DELETE" /\ lastReq.pw = "wrong"
  /\ cache # << >> /\ sockets # {}

\* C2: a bets:update is emitted only by a request whose writeBets wrote both
\* the bets file and the backup, and it carries exactly the list that is now
\* on disk; a request whose persist step failed emits nothing.
C2_BroadcastOnlyPersisted ==
  /\ \A i \in 1..Len(emitted) :
       /\ emitted[i].event = "bets:update"
       /\ lastRes = 200
       /\ cache = emitted[i].payload.items
       /\ Persisted(emitted[i].payload.items)
  /\ lastRes = 500 => emitted = NoEmitted

\* C2 witness: a two-record collection was broadcast to a subscriber
C2_Witness ==
  /\ emitted # NoEmitted /\ "x1" \in emitted[1].to
  /\ Len(emitted[1].payload.items) = 2

\* C3: after a PUT, POST, PATCH or DELETE answered 200 exactly one bets:update
\* was emitted, to every connected socket, carrying the server's collection
\* as it is after the mutation.
C3_OneBroadcastPerMutation ==
  (lastRes = 200 /\ lastReq.op \in BetsOps) =>
    /\ Len(emitted) = 1
    /\ emitted[1].event = "bets:update"
    /\ emitted[1].to = sockets
    /\ emitted[1].payload.kind = "object"
    /\ emitted[1].payload.items = cache

\* C3 witness: a PATCH changed one of two records while two sockets listened
C3_Witness ==
  /\ lastRes = 200 /\ lastReq.op = "PATCH"
  /\ Cardinality(sockets) = 2
  /\ Len(cache) = 2 /\ cache[1].status = "LOST" /\ cache[2].status = "WON"

\* the viewer has nothing in flight: fetches answered and delivered, socket empty
Settled(v) ==
  /\ mounted[v] /\ connected[v] /\ ~missed[v]
  /\ betsFetch[v].state = "done"
  /\ wire[v] = << >>
  /\ metaPending[v] = 0
  /\ \A t \in 0..MaxTime : metaReplies[v][t] = 0

\* C4 (as claimed): a viewer that stayed connected and has received every
\* fetch response and notification holds the server's collection, whatever
\* the order they arrived in.
C4_SettledViewerHasServerCollection ==
  \A v \in Viewers : Settled(v) => bets[v] = cache

\* C5 (as claimed): handling the same bets:update payload (a bare list, or
\* { items, updatedAt }) a second time in a row leaves bets, lastEventAt and
\* the stored marker as the first handling left them.
C5_SamePayloadTwice ==
  [][\A v \in Viewers :
       ( /\ lastApplied[v].kind = "array"
            \/ (lastApplied[v].kind = "object" /\ lastApplied[v].updatedAt # 0)
         /\ wire[v] # << >> /\ Head(wire[v]) = lastApplied[v]
         /\ wire'[v] = Tail(wire[v]) /\ lastApplied'[v] = lastApplied[v] )
       => /\ bets'[v] = bets[v]
          /\ lastEventAt'[v] = lastEventAt[v]
          /\ stored'[v] = stored[v]]_vars

\* C6 (as claimed): every value the viewer's lastEventAt takes is greater
\* than or equal to the one it replaces.
C6_ViewerMarkerMonotonic ==
  [][\A v \in Viewers : lastEventAt'[v] >= lastEventAt[v]]_vars

\* C7 (as claimed): the marker GET /api/meta returns never decreases, after a
\* successful collection mutation it is the time of that mutation's write,
\* and a request that does not succeed (401, 404, 400, 500) leaves it as it was.
C7_MarkerOnlyMovesOnSuccess ==
  [][/\ getUpdatedAt' >= getUpdatedAt
     /\ (lastRes' = 200 /\ lastReq'.op \in BetsOps /\ emitted' # NoEmitted) =>
          getUpdatedAt' = lastBackup'.stamp
     /\ lastRes' \in {400, 401, 404, 500} => getUpdatedAt' = getUpdatedAt]_vars

\* C8 (as claimed): no two records of the collection carry the same id.
C8_UniqueIds ==
  \A i, j \in 1..Len(cache) :
    (i # j /\ cache[i].id # Absent) => cache[i].id # cache[j].id

\* C9: every record of the collection has a non-empty added_date, after any
\* POST, PUT and PATCH, also a PATCH that names an empty or null added_date.
C9_AddedDateSet ==
  \A i \in 1..Len(cache) : cache[i].added_date \notin {Absent, Null, ""}

\* C9 witness: the record the server gave the id "1" on the first day carries
\* the second day as added_date, which only a PATCH with an empty or null
\* added_date on the second day gives it
C9_Witness ==
  /\ lastReq.op = "PATCH" /\ lastRes = 200
  /\ \E i \in 1..Len(cache) :
       cache[i].id = "1" /\ cache[i].added_date = "02/01/2025"

\* C10: a request answered 404 (PATCH or DELETE of an unknown id) or 400 (PUT
\* of a non-array, PUT of a non-finite or non-positive rate) leaves
\* collection, bets file, marker, backups, rate and rate file as they were
\* and emits nothing.
C10_RejectedChangesNothing ==
  [][lastRes' \in {400, 404} =>
       /\ UNCHANGED <<serverVars, wire>>
       /\ emitted' = NoEmitted]_vars

\* C10 witness: a DELETE of an unknown id was answered 404 on a non-empty
\* collection with a subscriber connected
C10_Witness ==
  /\ lastRes = 404 /\ lastReq.op = "DELETE"
  /\ cache # << >> /\ sockets # {}

\* the bets:update handler has just taken the first notification of the socket
Handled(v) == wire[v] # << >> /\ wire'[v] = Tail(wire[v])

\* C11: a structured notification { items, updatedAt } is handled in receipt
\* order as a full replacement: the handler takes the oldest notification on
\* the socket, and after it bets is exactly its items, lastEventAt and the
\* stored marker are its updatedAt, and no fetchMeta() has been sent.
C11_StructuredAppliedInOrder ==
  [][\A v \in Viewers :
       LET p == Head(wire[v])
       IN  (Handled(v) /\ p.kind = "object" /\ p.updatedAt # 0)
           => /\ lastApplied'[v] = p
              /\ bets'[v] = p.items
              /\ lastEventAt'[v] = p.updatedAt
              /\ stored'[v] = p.updatedAt
              /\ metaPending'[v] = metaPending[v]
              /\ metaReplies'[v] = metaReplies[v]]_vars

\* C11, the case: the viewer has just handled a structured notification that
\* replaced its bets and carried a timestamp older than the clock
C11_Witness ==
  \E v \in Viewers :
    /\ lastApplied[v].kind = "object" /\ lastApplied[v].updatedAt # 0
    /\ lastApplied[v].items # << >> /\ bets[v] = lastApplied[v].items
    /\ lastEventAt[v] = lastApplied[v].updatedAt /\ lastEventAt[v] < now

\* C12 (as claimed): a notification that is neither a bare list nor a
\* structure carrying items and updatedAt leaves bets as they were and sets
\* lastEventAt to the current time.
C12_OtherPayloadKeepsBets ==
  [][\A v \in Viewers :
       LET p == Head(wire[v])
       IN  ( /\ Handled(v)
             /\ p.kind # "array"
             /\ ~(p.kind = "object" /\ p.updatedAt # 0) )
           => /\ bets'[v] = bets[v]
              /\ lastEventAt'[v] = now]_vars

\* C13 (as claimed): whenever lastEventAt takes a new value, the stored
\* marker (localStorage betoff_last_update) takes the same value.
C13_MarkerChangePersisted ==
  [][\A v \in Viewers :
       lastEventAt'[v] # lastEventAt[v] => stored'[v] = lastEventAt'[v]]_vars

IsPending(b) == b.status = STATUS.PENDING

\* C14: normalizedWinValue of a PENDING bet is 0 whatever its stake_value and
\* win_value, and the stats of MobileHome are those of the non-PENDING bets
\* of the filtered list alone: total counts them, and winRate, profitUSDT,
\* the stake sum of roi and avgOdds are what calcStats gives without the
\* PENDING bets.
C14_PendingContributesNothing ==
  \A v \in Viewers :
    LET decided == SelectSeq(filtered[v], LAMBDA b : ~IsPending(b))
    IN  /\ \A i \in DOMAIN bets[v] :
             IsPending(bets[v][i]) => normalizedWinValue(bets[v][i]) = 0
        /\ stats[v].total = Len(decided)
        /\ stats[v] = calcStats(decided, rubRate[v])

\* C14, the case: a PENDING bet with a stake, odds and a win is shown next to
\* one won bet, and the stats count the won bet alone
C14_Witness ==
  \E v \in Viewers :
    /\ Len(filtered[v]) = 2
    /\ \E i \in 1..2 : /\ IsPending(filtered[v][i])
                       /\ NumberOrZero(filtered[v][i].stake_value) # 0
                       /\ NumberOrZero(filtered[v][i].win_value) # 0
                       /\ NumberOrZero(filtered[v][i].coef) # 0
    /\ stats[v].total = 1 /\ stats[v].winRate = 100
    /\ stats[v].profitUSDT = Q(2000, 1) /\ stats[v].avgOdds = 300

\* C15 (as claimed): for a bet with numeric stake_value and win_value,
\* normalizedWinValue (of either client) is win_value - stake_value when the
\* status is WON; when it is LOST it is win_value if win_value < 0, otherwise
\* -stake_value if stake_value > 0, otherwise 0.
C15_ReferenceRule ==
  \A v \in Viewers : \A i \in DOMAIN bets[v] :
    LET b == bets[v][i]
        win == b.win_value.v
        stake == b.stake_value.v
        rule == IF b.status = STATUS.WON THEN win - stake
                ELSE IF win < 0 THEN win
                ELSE IF stake > 0 THEN 0 - stake
                ELSE 0
    IN  ( /\ b.win_value.kind = "num" /\ b.stake_value.kind = "num"
          /\ b.status \in {STATUS.WON, STATUS.LOST} )
        => normalizedWinValue(b) = rule /\ normalizedWinValueApp(b) = rule

\* C16: the streak of MobileHome has as kind the status of the first
\* non-PENDING entry of the filtered list and as count the number of
\* non-PENDING entries before the first non-PENDING entry of another status
\* (all of them when there is none); without a non-PENDING entry it is no
\* streak, count 0.
C16_StreakOfDecided ==
  \A v \in Viewers :
    LET decided == SelectSeq(filtered[v], LAMBDA b : ~IsPending(b))
        others == {i \in DOMAIN decided : decided[i].status # decided[1].status}
        length == IF others = {} THEN Len(decided)
                  ELSE (CHOOSE i \in others : \A j \in others : i <= j) - 1
    IN  IF decided = << >>
        THEN streak[v] = [kind |-> StreakKind.none, count |-> 0]
        ELSE /\ streak[v].count = length
             /\ streak[v].kind = IF decided[1].status = STATUS.WON
                                 THEN StreakKind.won ELSE StreakKind.lost

\* C16, the case: [PENDING, WON, WON, LOST, WON] gives a streak of 2 wins
C16_Witness ==
  \E v \in Viewers :
    /\ [i \in DOMAIN filtered[v] |-> filtered[v][i].status]
         = <<STATUS.PENDING, STATUS.WON, STATUS.WON, STATUS.LOST, STATUS.WON>>
    /\ streak[v] = [kind |-> StreakKind.won, count |-> 2]

IsCalendarDate(text) ==
  LET m == execDMY(trim(text))
  IN  /\ m.ok
      /\ NumberOfDigits(m.mo) \in 1..12
      /\ NumberOfDigits(m.d) \in 1..DaysInMonth(NumberOfDigits(m.y), NumberOfDigits(m.mo))

\* C18: a bet whose added_date is malformed or names no day of the calendar
\* is selected neither by the WEEK nor by the MONTH filter at any time, and
\* the list MobileHome shows for WEEK or MONTH holds no such bet.
C18_BadDateExcluded ==
  \A v \in Viewers :
    /\ \A i \in DOMAIN bets[v] :
         ~IsCalendarDate(bets[v][i].added_date)
           => ~inPeriod(bets[v][i], "WEEK", now) /\ ~inPeriod(bets[v][i], "MONTH", now)
    /\ period[v] \in {"WEEK", "MONTH"}
         => \A i \in DOMAIN filtered[v] : IsCalendarDate(filtered[v][i].added_date)

\* C18, the case: the collection holds 32/12/2024, which new Date() turns
\* into today, next to a bet of today; the WEEK list shows the second alone
C18_Witness ==
  \E v \in Viewers :
    /\ period[v] = "WEEK" /\ now = 1
    /\ Len(bets[v]) = 2
    /\ bets[v][1].added_date = DMY(32, 12, 2024)
    /\ bets[v][2].added_date = Today
    /\ filtered[v] = <<bets[v][2]>>

\* C19: the rate MobileHome holds, and with it the divisor of every
\* conversion, is always a finite positive number: it starts as
\* DEFAULT_RUB_RATE, and a rate reply or rate notification either leaves it
\* as it is or sets it to DEFAULT_RUB_RATE or to the finite positive value
\* it carried.
C19_RateFinitePositive ==
  [][\A v \in Viewers :
       /\ IsFinitePositive(rubRate[v]) /\ IsFinitePositive(rubRate'[v])
       /\ IsFinitePositive(rateOr(rubRate'[v]))
       /\ rubRate'[v] # rubRate[v]
            => \/ rubRate'[v] = Num(DEFAULT_RUB_RATE)
               \/ (rubRate'[v] = rateIn'[v] /\ IsFinitePositive(rateIn'[v]))]_vars

\* C19, the case: a notification with an absent, zero, negative or
\* non-numeric rate has just been handled and the rate received before is kept
C19_Witness ==
  \E v \in Viewers :
    /\ rateIn[v].kind \in {"num", "nan", "inf"} /\ ~IsFinitePositive(rateIn[v])
    /\ rubRate[v] = Num(9000)
    /\ stats[v] = calcStats(filtered[v], Num(9000))

\* the record of the chosen document that importItems[i] was made from is
\* won, with a numeric stake_value and coef and without win_value
WonWithoutWin(i) ==
  /\ importDoc.items[i].status = STATUS.WON
  /\ importDoc.items[i].stake_value.kind = "num"
  /\ importDoc.items[i].coef.kind = "num"
  /\ importDoc.items[i].win_value = Undefined

IsForeign(b) == b.status \notin {STATUS.WON, STATUS.LOST, STATUS.PENDING}

\* the list with every foreign status read as PENDING
AsPending(list) ==
  [i \in 1..Len(list) |->
     IF IsForeign(list[i]) THEN [list[i] EXCEPT !.status = STATUS.PENDING] ELSE list[i]]

\* C21: a record whose status is none of WON, LOST, PENDING is handled as
\* PENDING by every consumer: its result is 0, and the metrics and the streak
\* of a page are those of the same records with that status read as PENDING.
C21_ForeignStatusIsPending ==
  \A v \in Viewers :
    /\ \A i \in 1..Len(filtered[v]) :
         IsForeign(filtered[v][i]) => normalizedWinValue(filtered[v][i]) = 0
    /\ stats[v] = calcStats(AsPending(filtered[v]), rubRate[v])
    /\ streak[v] = calcStreak(AsPending(filtered[v]))

\* the step sends the viewer's fetchBets()
IssuesBets(v) == betsFetch'[v].state = "sent" /\ betsFetch[v].state # "sent"
\* the step sends a fetchMeta() outside the bets:update handler
IssuesMeta(v) == metaPending'[v] > metaPending[v] /\ wire'[v] = wire[v]
\* the step is the success of the viewer's subscription
Subscribes(v) == ~connected[v] /\ connected'[v]

\* C22 (as claimed): the viewer sends its fetch of the collection and its
\* fetch of the marker when its subscription first succeeds: one of each in
\* that step, none in a step before it, none on a later reconnect.
C22_FetchOnFirstSubscribe ==
  [][\A v \in Viewers :
       /\ (IssuesBets(v) \/ IssuesMeta(v)) =>
            /\ Subscribes(v)
            /\ betsFetch[v].state = "none"
            /\ IssuesBets(v) /\ metaPending'[v] = metaPending[v] + 1
       /\ (Subscribes(v) /\ betsFetch[v].state = "none") =>
            IssuesBets(v) /\ IssuesMeta(v)]_vars

\* C23: a transport drop or a failed fetch leaves the viewer's cache and
\* marker alone: the disconnect event only switches connected to false, a
\* failed fetchMeta() (result 0) leaves lastEventAt, a failed fetchBets()
\* leaves bets, and bets changes only by a delivered collection or a
\* handled notification.
C23_DropKeepsCacheAndMarker ==
  [][\A v \in Viewers :
       /\ (connected[v] /\ ~connected'[v]) =>
            /\ bets'[v] = bets[v]
            /\ lastEventAt'[v] = lastEventAt[v]
            /\ stored'[v] = stored[v]
       /\ metaReplies'[v][0] < metaReplies[v][0] =>
            /\ bets'[v] = bets[v]
            /\ lastEventAt'[v] = lastEventAt[v]
            /\ stored'[v] = stored[v]
       /\ (betsFetch[v].state = "sent" /\ betsFetch'[v].state = "failed") =>
            /\ bets'[v] = bets[v]
            /\ lastEventAt'[v] = lastEventAt[v]
            /\ stored'[v] = stored[v]
       /\ bets'[v] # bets[v] =>
            \/ betsFetch[v].state = "replied" /\ betsFetch'[v].state = "done"
            \/ Handled(v)]_vars

\* the socket of a viewer dropped after a notification was handled and the
\* fetch of the collection had failed: cache and marker are still there
C23_Witness ==
  \E v \in Viewers :
    /\ mounted[v] /\ ~connected[v]
    /\ betsFetch[v].state = "failed"
    /\ lastApplied[v].kind = "object"
    /\ bets[v] # << >>
    /\ lastEventAt[v] # 0

\* the calendar day the text names is one of the seven days that end today
InLastSevenDays(text, t) ==
  LET ms == parseDMYtoMs(text)
      today == DateNow(t) \div TicksPerDay
  IN  ms.kind = "num" /\ (ms.v \div TicksPerDay) \in (today - 6)..today

\* C24 (as claimed): on every current date the WEEK filter selects exactly
\* the bets whose added_date is one of the seven calendar days from today
\* minus 6 days through today, also when the window crosses a month or year
\* boundary or holds a day that is not 24 hours long.
C24_WeekIsSevenCalendarDays ==
  \A v \in Viewers : \A i \in DOMAIN bets[v] :
    inPeriod(bets[v][i], "WEEK", now) <=> InLastSevenDays(bets[v][i].added_date, now)

\* the clock of the specifications that start with Init
\* C25 (as claimed): in every state the streak the page shows is the streak
\* of the bets the period filter selects, the subset its winrate and profit
\* are computed of, not of the whole collection or of a prefix of it.
C25_StreakOfFilteredSubset ==
  \A v \in Viewers :
    /\ filtered[v] = filterBetsByAddedDate(bets[v], period[v], now)
    /\ streak[v] = calcStreak(filterBetsByAddedDate(bets[v], period[v], now))

\* the entries of a are entries of b, in the order b has them
RECURSIVE InOrderOf(_, _)
InOrderOf(a, b) ==
  IF a = << >> THEN TRUE
  ELSE IF b = << >> THEN FALSE
  ELSE IF Head(a) = Head(b) THEN InOrderOf(Tail(a), Tail(b))
  ELSE InOrderOf(a, Tail(b))

\* C26: every operation keeps the positional order of the collection: a POST
\* puts the new record first and leaves the others as they were, a PATCH
\* changes one record at its position, a DELETE leaves the remaining records
\* in their order, and GET /api/bets answers with the collection as stored.
C26_OrderPreserved ==
  [][/\ (lastReq'.op = "POST" /\ lastRes' = 200) =>
          Len(cache') = Len(cache) + 1 /\ Tail(cache') = cache
     /\ (lastReq'.op = "PATCH" /\ lastRes' = 200) =>
          /\ Len(cache') = Len(cache)
          /\ \E idx \in 1..Len(cache) :
               /\ cache'[idx].id = cache[idx].id
               /\ \A i \in 1..Len(cache) : i # idx => cache'[i] = cache[i]
     /\ (lastReq'.op = "DELETE" /\ lastRes' = 200) =>
          Len(cache') < Len(cache) /\ InOrderOf(cache', cache)
     /\ \A v \in Viewers :
          (betsFetch[v].state = "sent" /\ betsFetch'[v].state = "replied") =>
            betsFetch'[v].data = cache /\ cache' = cache]_vars

\* a DELETE has left two different records, and a viewer was answered with
\* a collection of different records
C26_Witness ==
  /\ lastReq.op = "DELETE" /\ lastRes = 200
  /\ Len(cache) = 2 /\ cache[1] # cache[2]
  /\ \E v \in Viewers :
       /\ betsFetch[v].state = "replied"
       /\ Len(betsFetch[v].data) = 3
       /\ betsFetch[v].data[1] # betsFetch[v].data[3]

\* C27: a successful PATCH whose payload does not name added_date (here it
\* names status alone) leaves the added_date of the record as it was, as
\* well as its other fields the payload does not name and every other
\* record of the collection.
C27_PatchKeepsAddedDate ==
  [][(lastReq'.op = "PATCH" /\ lastRes' = 200) =>
       /\ Len(cache') = Len(cache)
       /\ \E idx \in 1..Len(cache) :
            /\ cache'[idx].added_date = cache[idx].added_date
            /\ cache'[idx].id = cache[idx].id
            /\ cache'[idx].status = StatusPatch.status
            /\ \A i \in 1..Len(cache) : i # idx => cache'[i] = cache[i]]_vars

\* a PATCH has turned a record to LOST that kept the date its admin gave it,
\* next to a record that is as it was posted
C27_Witness ==
  /\ lastReq.op = "PATCH" /\ lastRes = 200
  /\ \E i, j \in 1..Len(cache) :
       /\ cache[i] = [Rec("a", UserDate, "WON") EXCEPT !.status = "LOST"]
       /\ cache[j].status = "WON"

\* C28: when the document chosen for the import is malformed (no JSON, or no
\* array), the error message is shown and nothing is staged, also when
\* records of an earlier file were staged; importing then only shows a
\* message: no request is sent and the collection stays as it is.
C28_MalformedDocumentImportsNothing ==
  [][/\ (importDoc.isArray /\ ~importDoc'.isArray) =>
          importInfo' = Info.error /\ importItems' = << >> /\ cache' = cache
     /\ importInfo' = Info.error => importItems' = << >>
     /\ (importInfo = Info.error /\ importRun.pc = "idle") =>
          /\ importRun'.pc = "idle"
          /\ importInfo' = Info.choose =>
               cache' = cache /\ lastReq' = NoReq /\ emitted' = NoEmitted]_vars

\* after an import that added a record, a malformed document was chosen:
\* the error is shown, nothing is staged, no import is in flight
C28_Witness ==
  /\ ~importDoc.isArray
  /\ importInfo = Info.error
  /\ importItems = << >>
  /\ importRun = NoRun
  /\ \E i \in 1..Len(cache) : cache[i].id = "generated"

\* C29 (as claimed): the import only adds: when its PUT succeeds, every
\* record the server's collection held just before the PUT is still in the
\* collection, also when the request of another admin was handled between
\* the import's GET and its PUT.
C29_ImportOnlyAdds ==
  [][(importRun.pc = "read" /\ importRun'.pc = "answered" /\ importRun'.ok) =>
       \A i \in 1..Len(cache) : \E j \in 1..Len(cache') : cache'[j] = cache[i]]_vars

\* C30: in every state of the server, also after a mutating request whose
\* persist step failed, the collection GET /api/bets returns is the list the
\* bets file holds.
C30_CacheEqualsFile ==
  cache = readBets(betsFile)

TypeOK == now \in 1..MaxTime
====
